---------------------------- MODULE Spec2Model ----------------------------
(***************************************************************************)
(* Model of the agentic code indexer: the property-graph store, the        *)
(* batched ingestion and the deletion cascade (graph_ingestion.py), the    *)
(* file change detector (file_traversal.py) and the hierarchical           *)
(* summarization scheduler with its summary worker                         *)
(* (summarization_orchestrator.py, llm_integration.py).                    *)
(*                                                                         *)
(* The graph store is the only shared state.  A stored node is a record;   *)
(* a property the node does not carry has the value Null.  Edges refer to  *)
(* their end nodes by the pair <<label, id>>, which identifies a stored    *)
(* node because every node is created by MERGE (n:Label {id: ...}).  The   *)
(* edges form a multiset: rels maps an edge to its number of copies.       *)
(***************************************************************************)
EXTENDS Integers, Sequences, FiniteSets, TLC

VARIABLES
    nodes,          \* the stored nodes (a set of records)
    rels,           \* the stored edges: edge record -> number of copies
    opCount,        \* operations performed so far (bounds the exploration)
    lastRels,       \* relationship list of the last ingest call
    lastMatched,    \* TRUE iff every endpoint of lastRels matched a stored node
    repeated,       \* TRUE iff the last ingest repeated the previous call's list
    lastDelete,     \* outcome of the last delete_file_subgraph call
    workspace,      \* the files on disk: path -> SHA-256 of the bytes, or Absent
    file_changes,   \* the FileChange records of the last detect_file_changes
    scan,           \* the arguments and faults of the last detect_file_changes
    run,            \* the summarization runs: run name -> its local state
    responses,      \* <<node id, text>> for every text the LLM API has returned
    gather,         \* the running batch: its kind, width, place and result
    tasks,          \* the asyncio tasks of the running batch, in list order
    semaphore,      \* the free permits of the batch's asyncio.Semaphore
    pipeline,       \* the index runs: place, fragments, store after each run
    search          \* the last search or traversal: its arguments and answer

storeVars == <<nodes, rels>>
ingestVars == <<lastRels, lastMatched, repeated>>
detectVars == <<workspace, file_changes, scan>>
summarizeVars == <<run, responses>>
batchVars == <<gather, tasks, semaphore>>
indexVars == <<pipeline>>
searchVars == <<search>>

vars == <<nodes, rels, opCount, lastRels, lastMatched, repeated, lastDelete,
          workspace, file_changes, scan, run, responses, gather, tasks,
          semaphore, pipeline, search>>

Null == "null"

(***************************************************************************)
(* Bounds of the exploration.                                              *)
(***************************************************************************)
MaxOps == 2          \* calls per behaviour
MaxFragNodes == 2    \* nodes per chunker output
MaxFragRels == 2     \* relationships per chunker output

(***************************************************************************)
(* Generic helpers.                                                        *)
(***************************************************************************)
SeqsUpTo(S, n) == UNION {[1..k -> S] : k \in 0..n}

Range(s) == {s[i] : i \in DOMAIN s}

Key(n) == <<n.label, n.id>>

NodesWithId(ns, i) == {n \in ns : n.id = i}

(***************************************************************************)
(* graph_ingestion.py                                                      *)
(***************************************************************************)
KnownLabels ==
    {"File", "Directory", "Class", "Interface", "Method", "Function",
     "Variable", "Parameter", "Import", "Export"}

\* GraphIngestion._get_node_label: the store label of a parsed node.
GetNodeLabel(label) == IF label \in KnownLabels THEN label ELSE "Node"

\* GraphIngestion._prepare_node_for_cypher: the row of a parsed node.  The row
\* carries id, label, name always, raw_code when the node has code, and path
\* and checksum for a node that has a path; it never carries
\* generated_summary, summary_status or embedding.
\* A key that is absent from the row is Null here.
PrepareNodeForCypher(node) ==
    [id |-> node.id, label |-> node.label, name |-> node.name,
     raw_code |-> node.raw_code, path |-> node.path,
     checksum |-> node.checksum]

\* SET n = row: the row replaces the properties of the node
SetToRow(n, row) ==
    [n EXCEPT !.name = row.name,
              !.raw_code = row.raw_code,
              !.path = row.path,
              !.checksum = row.checksum,
              !.generated_summary = Null,
              !.summary_status = Null,
              !.embedding = Null]

\* SET n += row: a key of the row overwrites, every other property stays.
SetFromRow(n, row) ==
    [n EXCEPT !.name = row.name,
              !.raw_code = IF row.raw_code = Null THEN @ ELSE row.raw_code,
              !.path = IF row.path = Null THEN @ ELSE row.path,
              !.checksum = IF row.checksum = Null THEN @ ELSE row.checksum]

NewNode(label, row) ==
    [label |-> label, id |-> row.id, name |-> row.name,
     raw_code |-> row.raw_code, path |-> row.path,
     checksum |-> row.checksum, generated_summary |-> Null,
     summary_status |-> Null, embedding |-> Null]

\* MERGE (n:<label> {id: row.id}) SET n += row
MergeNodeWrongScope(ns, label, row) ==
    IF \E n \in ns : n.id = row.id
    THEN {IF n.id = row.id THEN SetFromRow(n, row) ELSE n : n \in ns}
    ELSE ns \cup {NewNode(label, row)}

MergeNode(ns, label, row) ==
    IF \E n \in ns : n.label = label /\ n.id = row.id
    THEN {IF n.label = label /\ n.id = row.id THEN SetFromRow(n, row) ELSE n : n \in ns}
    ELSE ns \cup {NewNode(label, row)}

\* GraphIngestion._ingest_nodes_batch: the nodes are grouped by store label and
\* each group is one UNWIND ... MERGE ... SET query; the group of a label in
\* failed raises and is skipped.  Groups touch disjoint nodes, so applying the
\* rows in list order gives the store the queries leave.
RECURSIVE IngestNodesBatch(_, _, _)
IngestNodesBatch(ns, batch, failed) ==
    IF batch = <<>> THEN ns
    ELSE LET label == GetNodeLabel(Head(batch).label)
             next == IF label \in failed THEN ns
                     ELSE MergeNode(ns, label, PrepareNodeForCypher(Head(batch)))
         IN IngestNodesBatch(next, Tail(batch), failed)

Edge(s, type, t) == [src |-> Key(s), type |-> type, tgt |-> Key(t)]

Copies(es, e) == IF e \in DOMAIN es THEN es[e] ELSE 0

AddCopy(es, e) ==
    IF e \in DOMAIN es THEN [es EXCEPT ![e] = @ + 1] ELSE es @@ (e :> 1)

RECURSIVE AddAll(_, _)
AddAll(es, S) ==
    IF S = {} THEN es
    ELSE LET e == CHOOSE x \in S : TRUE IN AddAll(AddCopy(es, e), S \ {e})

MatchedEdgesOptionalTarget(ns, rel) ==
    {Edge(s, rel.type, [label |-> "Node", id |-> rel.target_id]) :
        s \in NodesWithId(ns, rel.source_id)}

\* MATCH (source {id: ..}) MATCH (target {id: ..}): every pair of stored nodes
\* with these ids, whatever their labels.
MatchedEdges(ns, rel) ==
    {Edge(s, rel.type, t) : s \in NodesWithId(ns, rel.source_id),
                            t \in NodesWithId(ns, rel.target_id)}

\* GraphIngestion._ingest_relationships_batch, first query:
\* CALL apoc.create.relationship(source, type, properties, target) for every
\* row and every matched pair; the procedure creates an edge each time.
RECURSIVE CreateRelationships(_, _, _)
CreateRelationships(ns, es, batch) ==
    IF batch = <<>> THEN es
    ELSE CreateRelationships(ns, AddAll(es, MatchedEdges(ns, Head(batch))), Tail(batch))

\* GraphIngestion._ingest_relationships_fallback:
\* MERGE (source)-[r:<type>]->(target) creates the edge only if there is none.
MergeEdges(es, S) ==
    es @@ [e \in S \ DOMAIN es |-> 1]

RECURSIVE IngestRelationshipsFallback(_, _, _)
IngestRelationshipsFallback(ns, es, batch) ==
    IF batch = <<>> THEN es
    ELSE IngestRelationshipsFallback(
             ns, MergeEdges(es, MatchedEdges(ns, Head(batch))), Tail(batch))

\* GraphIngestion._ingest_relationships_batch: the APOC query, and the fallback
\* when that query raises.
IngestRelationshipsBatch(ns, es, batch, apocOk) ==
    IF batch = <<>> THEN es
    ELSE IF apocOk THEN CreateRelationships(ns, es, batch)
    ELSE IngestRelationshipsFallback(ns, es, batch)

AllMatched(ns, batch) ==
    \A i \in DOMAIN batch :
        /\ NodesWithId(ns, batch[i].source_id) # {}
        /\ NodesWithId(ns, batch[i].target_id) # {}

(***************************************************************************)
(* Inputs of the ingestion: the rows a parser can emit.                    *)
(***************************************************************************)
Ids == {"n1", "n2"}
IngestLabels == {"File", "Class"}
Names == {"a", "b"}
RelTypes == {"CONTAINS", "CALLS"}

IsFileLike(label) == label \in {"File", "Directory"}

ParsedNodes ==
    {[id |-> i, label |-> l, name |-> nm,
      raw_code |-> IF IsFileLike(l) THEN Null ELSE "code",
      path |-> IF IsFileLike(l) THEN "p_" \o i ELSE Null,
      checksum |-> IF l = "File" THEN "c1" ELSE Null] :
        i \in Ids, l \in IngestLabels, nm \in Names}

ParsedRels ==
    {[source_id |-> "n1", target_id |-> "n2", type |-> ty] : ty \in RelTypes}
    \cup {[source_id |-> "n2", target_id |-> "n1", type |-> "CALLS"]}

\* GraphIngestion.ingest_chunker_output: all node batches, then all
\* relationship batches (one batch each below batch_size).
ingest_chunker_output ==
    /\ opCount < MaxOps
    /\ \E ns \in SeqsUpTo(ParsedNodes, MaxFragNodes),
          rs \in SeqsUpTo(ParsedRels, MaxFragRels),
          apocOk \in BOOLEAN,
          failed \in {{}} \cup {{l} : l \in IngestLabels} :
         LET stored == IngestNodesBatch(nodes, ns, failed) IN
         /\ nodes' = stored
         /\ rels' = IngestRelationshipsBatch(stored, rels, rs, apocOk)
         /\ lastRels' = rs
         /\ lastMatched' = AllMatched(stored, rs)
         /\ repeated' = (rs # <<>> /\ rs = lastRels /\ lastMatched)
    /\ opCount' = opCount + 1
    /\ UNCHANGED <<lastDelete, detectVars, summarizeVars, batchVars, indexVars, searchVars>>

\* The parts of the state an exploration does not use stay at these values.
IngestIdle == lastRels = <<>> /\ lastMatched = FALSE /\ repeated = FALSE

DeleteIdle == lastDelete = [kind |-> "none", path |-> Null, removed |-> 0]

NoScan ==
    [kind |-> "none", directory |-> Null, csErr |-> {}, statErr |-> {},
     storeOk |-> TRUE]

DetectIdle ==
    /\ workspace = << >>
    /\ file_changes = {}
    /\ scan = NoScan

SummarizeIdle == run = << >> /\ responses = {}

NoBatch ==
    [kind |-> "none", pc |-> "idle", max_concurrent |-> 0,
     successful_outputs |-> << >>, saturated |-> {}]

BatchIdle == gather = NoBatch /\ tasks = << >> /\ semaphore = 0

NoStore == [nodes |-> {}, rels |-> << >>]

NoPipeline ==
    [pc |-> "idle", runs |-> 0, directory |-> Null, apoc |-> TRUE,
     storeOk |-> TRUE, chunker_outputs |-> << >>, first |-> NoStore, second |-> NoStore]

PipelineIdle == pipeline = NoPipeline

NoIntent ==
    [query_type |-> "none", semantic_terms |-> << >>, entity_names |-> << >>,
     node_types |-> << >>, keywords |-> << >>, programming_terms |-> << >>,
     expand_context |-> FALSE, confidence |-> 0]

NoConfig ==
    [max_total_results |-> 0, enable_context_expansion |-> FALSE,
     max_context_nodes |-> 0, expand_call_hierarchy |-> FALSE,
     expand_inheritance |-> FALSE]

NoSearch ==
    [op |-> "none", accepted |-> TRUE, query |-> << >>, config |-> NoConfig,
     intent |-> NoIntent, all_results |-> << >>,
     unique_results |-> << >>, merged |-> << >>, results |-> << >>,
     method_id |-> Null, direction |-> Null, max_depth |-> 0,
     callers |-> << >>, callees |-> << >>, seeds |-> << >>,
     max_related_nodes |-> 0, related_nodes |-> << >>]

SearchIdle == search = NoSearch

InitIngest ==
    /\ nodes = {}
    /\ rels = << >>
    /\ opCount = 0
    /\ IngestIdle
    /\ DeleteIdle
    /\ DetectIdle
    /\ SummarizeIdle
    /\ BatchIdle
    /\ PipelineIdle
    /\ SearchIdle

NextIngest == ingest_chunker_output

SpecIngest == InitIngest /\ [][NextIngest]_vars

(***************************************************************************)
(* C1: after any sequence of ingest operations no two stored nodes share   *)
(* an id: an ingested node whose id is already stored updates that node    *)
(* and never creates a second node with the id, whatever its label.        *)
(***************************************************************************)
C1_UniqueNodeIds ==
    \A n1 \in nodes, n2 \in nodes : n1.id = n2.id => n1 = n2

(***************************************************************************)
(* C2: ingesting the same list of relationships twice, with both endpoints *)
(* of every relationship in the store (and node ids unique), leaves        *)
(* exactly one edge per (source_id, type, target_id).                      *)
(***************************************************************************)
EdgesOf(es, rel) ==
    {e \in DOMAIN es : /\ e.src[2] = rel.source_id
                       /\ e.type = rel.type
                       /\ e.tgt[2] = rel.target_id}

RECURSIVE SumCopies(_, _)
SumCopies(es, S) ==
    IF S = {} THEN 0
    ELSE LET e == CHOOSE x \in S : TRUE IN es[e] + SumCopies(es, S \ {e})

EdgeCount(es, rel) == SumCopies(es, EdgesOf(es, rel))

C2_RelationshipIngestIdempotent ==
    (repeated /\ C1_UniqueNodeIds) =>
        \A i \in DOMAIN lastRels : EdgeCount(rels, lastRels[i]) = 1

(***************************************************************************)
(* graph_ingestion.py: the deletion cascade                                *)
(***************************************************************************)
KeysOf(ns) == {Key(n) : n \in ns}

\* the end nodes of the edges at a node of S, in either direction
Adjacent(es, S) ==
    {e.tgt : e \in {x \in DOMAIN es : x.src \in S}}
    \cup {e.src : e \in {x \in DOMAIN es : x.tgt \in S}}

Successors(es, S) == {e.tgt : e \in {x \in DOMAIN es : x.src \in S}}

RECURSIVE UndirectedClosure(_, _)
UndirectedClosure(es, S) ==
    LET T == S \cup Adjacent(es, S)
    IN IF T = S THEN S ELSE UndirectedClosure(es, T)

RECURSIVE OutboundClosure(_, _)
OutboundClosure(es, S) ==
    LET T == S \cup Successors(es, S)
    IN IF T = S THEN S ELSE OutboundClosure(es, T)

\* MATCH (f:File {path: $file_path})
FileNodes(ns, p) == {n \in ns : n.label = "File" /\ n.path = p}

\* OPTIONAL MATCH (f)-[*]-(n): one hop only (no variable-length pattern)
RelatedNodesOneHop(es, F) == Adjacent(es, F)

\* OPTIONAL MATCH (f)-[*]-(n): the nodes on a path of any length and of
\* edges in any direction from a matched file node.
RelatedNodes(es, F) == UndirectedClosure(es, Adjacent(es, F))

\* the keys of the nodes the query deletes: f, and FOREACH node in related_nodes
DeletedKeys(ns, es, p) ==
    LET F == KeysOf(FileNodes(ns, p))
    IN IF F = {} THEN {} ELSE F \cup RelatedNodes(es, F)

\* DETACH DELETE: the node goes together with every edge at it.
DetachDelete(es, gone) ==
    LET keep == {e \in DOMAIN es : e.src \notin gone /\ e.tgt \notin gone}
    IN [e \in keep |-> es[e]]

\* GraphIngestion.delete_file_subgraph, the query runs.
delete_file_subgraph(p) ==
    /\ opCount < MaxOps
    /\ LET gone == DeletedKeys(nodes, rels, p) IN
       /\ nodes' = {n \in nodes : Key(n) \notin gone}
       /\ rels' = DetachDelete(rels, gone)
       /\ lastDelete' = [kind |-> "deleted", path |-> p,
                         removed |-> Cardinality(gone)]
    /\ opCount' = opCount + 1
    /\ UNCHANGED <<ingestVars, detectVars, summarizeVars, batchVars, indexVars, searchVars>>

\* GraphIngestion.delete_file_subgraph, the query raises: the error is logged
\* and 0 is returned; the store is as before.
delete_file_subgraph_error(p) ==
    /\ opCount < MaxOps
    /\ lastDelete' = [kind |-> "error", path |-> p, removed |-> 0]
    /\ opCount' = opCount + 1
    /\ UNCHANGED <<storeVars, ingestVars, detectVars, summarizeVars, batchVars, indexVars, searchVars>>

(***************************************************************************)
(* The stores the deletion is explored from: two files under a directory,  *)
(* a class with a method in the first file, a function in the second, and  *)
(* any subset of the edges below.                                          *)
(***************************************************************************)
StoredNode(label, id, path) ==
    NewNode(label, [id |-> id, name |-> id, path |-> path,
                    raw_code |-> IF IsFileLike(label) THEN Null ELSE "code",
                    checksum |-> IF label = "File" THEN "c1" ELSE Null])

DeleteNodes ==
    {StoredNode("Directory", "d1", "dir"),
     StoredNode("File", "f1", "p1"), StoredNode("File", "f2", "p2"),
     StoredNode("Class", "c1", Null), StoredNode("Method", "m1", Null),
     StoredNode("Function", "g2", Null)}

DeleteEdges ==
    {[src |-> <<"Directory", "d1">>, type |-> "CONTAINS", tgt |-> <<"File", "f1">>],
     [src |-> <<"Directory", "d1">>, type |-> "CONTAINS", tgt |-> <<"File", "f2">>],
     [src |-> <<"File", "f1">>, type |-> "CONTAINS", tgt |-> <<"Class", "c1">>],
     [src |-> <<"Class", "c1">>, type |-> "DEFINES", tgt |-> <<"Method", "m1">>],
     [src |-> <<"File", "f2">>, type |-> "CONTAINS", tgt |-> <<"Function", "g2">>],
     [src |-> <<"Function", "g2">>, type |-> "CALLS", tgt |-> <<"Method", "m1">>],
     [src |-> <<"Method", "m1">>, type |-> "CALLS", tgt |-> <<"Function", "g2">>],
     [src |-> <<"File", "f2">>, type |-> "IMPORTS", tgt |-> <<"File", "f1">>]}

DeletePaths == {"p1", "p2", "p3"}

InitDelete ==
    /\ nodes = DeleteNodes
    /\ \E E \in SUBSET DeleteEdges : rels = [e \in E |-> 1]
    /\ opCount = 0
    /\ IngestIdle
    /\ DeleteIdle
    /\ DetectIdle
    /\ SummarizeIdle
    /\ BatchIdle
    /\ PipelineIdle
    /\ SearchIdle

NextDelete ==
    \E p \in DeletePaths :
        \/ delete_file_subgraph(p)
        \/ delete_file_subgraph_error(p)

SpecDelete == InitDelete /\ [][NextDelete]_vars

(***************************************************************************)
(* C3: after delete_file_subgraph(p) has run, the store holds no node with *)
(* path p, none of the nodes that were reachable from the file node along  *)
(* outbound edges, and no edge with a deleted node as source or target.    *)
(***************************************************************************)
DeleteRan == lastDelete'.kind = "deleted" /\ opCount' = opCount + 1

C3_DeletionCascade ==
    [][DeleteRan =>
        LET p == lastDelete'.path
            reachable == OutboundClosure(rels, KeysOf(FileNodes(nodes, p)))
        IN /\ \A n \in nodes' : n.path # p
           /\ \A n \in nodes' : Key(n) \notin reachable
           /\ \A e \in DOMAIN rels' :
                 e.src \in KeysOf(nodes') /\ e.tgt \in KeysOf(nodes')]_vars

\* a delete removed a file together with at least two more nodes
C3_Witness == lastDelete.kind = "deleted" /\ lastDelete.removed >= 3

(***************************************************************************)
(* file_traversal.py: the scanner and the change detector                  *)
(***************************************************************************)
Absent == "absent"

\* FileTraversal.SUPPORTED_EXTENSIONS (the keys)
SUPPORTED_EXTENSIONS == {".py", ".cs", ".js", ".ts", ".jsx", ".tsx", ".mjs", ".cjs"}

\* FileTraversal.IGNORE_PATTERNS
IGNORE_PATTERNS ==
    {"__pycache__", ".git", ".svn", ".hg", "node_modules", "bin", "obj",
     ".vs", ".vscode", "build", "dist", "target", ".idea", ".pytest_cache"}

\* The paths of the explored workspaces, relative to the project root, with
\* their components, their suffix and whether their name starts with a dot.
FileEntries ==
    {[path |-> "x.py", parts |-> <<"x.py">>, suffix |-> ".py", dot |-> FALSE],
     [path |-> "s/y.py", parts |-> <<"s", "y.py">>, suffix |-> ".py", dot |-> FALSE],
     [path |-> "s/z.py", parts |-> <<"s", "z.py">>, suffix |-> ".py", dot |-> FALSE],
     [path |-> "s/n.txt", parts |-> <<"s", "n.txt">>, suffix |-> ".txt", dot |-> FALSE],
     [path |-> "node_modules/m.js", parts |-> <<"node_modules", "m.js">>,
      suffix |-> ".js", dot |-> FALSE]}

WsPaths == {e.path : e \in FileEntries}

\* The directories a scan is started in: the project root and its directory s.
ProjectRoot == "."
Directories == {ProjectRoot, "s"}

\* FileTraversal.should_ignore_path
ShouldIgnorePath(e) ==
    \/ \E i \in DOMAIN e.parts : e.parts[i] \in IGNORE_PATTERNS
    \/ (e.dot /\ e.parts[Len(e.parts)] \notin {".gitignore", ".env"})

\* FileTraversal.is_supported_file
IsSupportedFile(e) == e.suffix \in SUPPORTED_EXTENSIONS

\* the entry lies below the directory the recursion starts in
Below(e, dir) == dir = ProjectRoot \/ (Len(e.parts) > 1 /\ e.parts[1] = dir)

\* FileTraversal.scan_directory: the supported files found below dir.
ScanDirectory(ws, dir) ==
    {e.path : e \in {x \in FileEntries :
                        /\ ws[x.path] # Absent
                        /\ Below(x, dir)
                        /\ ~ShouldIgnorePath(x)
                        /\ IsSupportedFile(x)}}

\* FileTraversal.get_stored_checksums: path -> checksum of the File nodes that
\* have both; an empty dictionary when the query raises.
StoredFileNodes(ns) ==
    {n \in ns : /\ n.label = "File"
                /\ n.path \notin {Null, ""}
                /\ n.checksum \notin {Null, ""}}

\* a load that answers the first call of a behaviour only
GetStoredChecksumsFirstCall(ns, storeOk) ==
    IF storeOk /\ opCount = 0
    THEN [p \in {n.path : n \in StoredFileNodes(ns)} |->
             (CHOOSE n \in StoredFileNodes(ns) : n.path = p).checksum]
    ELSE << >>

GetStoredChecksums(ns, storeOk) ==
    IF storeOk
    THEN [p \in {n.path : n \in StoredFileNodes(ns)} |->
             (CHOOSE n \in StoredFileNodes(ns) : n.path = p).checksum]
    ELSE << >>

\* FileTraversal.calculate_file_checksum: the SHA-256 of the bytes, and the
\* empty string when reading the file raises.
CalculateFileChecksum(ws, p, csErr) == IF p \in csErr THEN "" ELSE ws[p]

\* the comparison with the stored checksums (detect_file_changes, 136-144)
FileStatusSwapped(stored, p, new_checksum) ==
    IF p \notin DOMAIN stored THEN "new"
    ELSE IF stored[p] = new_checksum THEN "modified"
    ELSE "unchanged"

FileStatus(stored, p, new_checksum) ==
    IF p \notin DOMAIN stored THEN "new"
    ELSE IF stored[p] # new_checksum THEN "modified"
    ELSE "unchanged"

FileChange(stored, p, new_checksum) ==
    [path |-> p,
     status |-> FileStatus(stored, p, new_checksum),
     old_checksum |-> IF p \in DOMAIN stored THEN stored[p] ELSE Null,
     new_checksum |-> new_checksum]

\* the loop over the scanned files: a file whose stat raises (statErr) is
\* logged and gets no record, after its path has been added to current_paths.
CurrentChanges(ws, files, stored, csErr, statErr) ==
    {FileChange(stored, p, CalculateFileChecksum(ws, p, csErr)) :
        p \in files \ statErr}

\* the loop over the stored paths
DeletedChangesNone(stored, current_paths) == {}

DeletedChanges(stored, current_paths) ==
    {[path |-> p, status |-> "deleted", old_checksum |-> stored[p],
      new_checksum |-> Null] : p \in DOMAIN stored \ current_paths}

\* FileTraversal.detect_file_changes(dir, project root)
detect_file_changes(dir, csErr, statErr, storeOk) ==
    /\ opCount < MaxOps
    /\ LET current_files == ScanDirectory(workspace, dir)
           stored_checksums == GetStoredChecksums(nodes, storeOk)
       IN /\ csErr \subseteq current_files
          /\ statErr \subseteq current_files
          /\ file_changes' =
                 CurrentChanges(workspace, current_files, stored_checksums,
                                csErr, statErr)
                 \cup DeletedChanges(stored_checksums, current_files)
    /\ scan' = [kind |-> "done", directory |-> dir, csErr |-> csErr,
                statErr |-> statErr, storeOk |-> storeOk]
    /\ opCount' = opCount + 1
    /\ UNCHANGED <<storeVars, ingestVars, lastDelete, workspace, summarizeVars, batchVars, indexVars, searchVars>>

\* FileTraversal.get_files_to_process
GetFilesToProcess(changes) ==
    {fc \in changes : fc.status \in {"new", "modified"}}

(***************************************************************************)
(* The explored workspaces and stores of the detector: every file is       *)
(* absent or has one of two contents; the store holds a File node, with    *)
(* the checksum of either content, for any of the paths in StoredPaths.    *)
(***************************************************************************)
Checksums == {"c1", "c2"}
StoredPaths == {"x.py", "s/y.py", "old.py"}

FileNode(p, c) ==
    NewNode("File", [id |-> "file:" \o p, name |-> p, raw_code |-> Null,
                     path |-> p, checksum |-> c])

Workspaces ==
    {ws \in [WsPaths -> Checksums \cup {Absent}] :
        \A p \in {"s/z.py", "s/n.txt", "node_modules/m.js"} : ws[p] # "c2"}

InitDetect ==
    /\ workspace \in Workspaces
    /\ \E st \in [StoredPaths -> Checksums \cup {Absent}] :
          nodes = {FileNode(p, st[p]) : p \in {q \in StoredPaths : st[q] # Absent}}
    /\ rels = << >>
    /\ opCount = 0
    /\ file_changes = {}
    /\ scan = NoScan
    /\ IngestIdle
    /\ DeleteIdle
    /\ SummarizeIdle
    /\ BatchIdle
    /\ PipelineIdle
    /\ SearchIdle

\* the detector where no file operation and no store query raises
NextDetect == \E dir \in Directories : detect_file_changes(dir, {}, {}, TRUE)

SpecDetect == InitDetect /\ [][NextDetect]_vars

(***************************************************************************)
(* C4: detect_file_changes gives every path exactly one status: a scanned  *)
(* supported file is new if its relative path is not among the stored File *)
(* checksums, modified if it is stored with a different checksum,          *)
(* unchanged if it is stored with an equal checksum; every stored path the *)
(* scan did not see is deleted.                                            *)
(***************************************************************************)
StatusesOf(p) == {fc.status : fc \in {x \in file_changes : x.path = p}}

C4_Classification ==
    scan.kind = "done" =>
        LET stored == GetStoredChecksums(nodes, TRUE)
            seen == ScanDirectory(workspace, scan.directory)
        IN /\ \A fc \in file_changes : fc.path \in seen \cup DOMAIN stored
           /\ \A fc1 \in file_changes, fc2 \in file_changes :
                 fc1.path = fc2.path => fc1 = fc2
           /\ \A p \in seen :
                 StatusesOf(p) =
                     IF p \notin DOMAIN stored THEN {"new"}
                     ELSE IF stored[p] # workspace[p] THEN {"modified"}
                     ELSE {"unchanged"}
           /\ \A p \in DOMAIN stored \ seen : StatusesOf(p) = {"deleted"}

\* one detection that reports a new, a modified, an unchanged and a deleted file
C4_Witness ==
    /\ scan.kind = "done"
    /\ {fc.status : fc \in file_changes} = {"new", "modified", "unchanged", "deleted"}

(***************************************************************************)
(* C5: the paths reported as new, modified or deleted are exactly the      *)
(* symmetric difference of the old file set (the stored files) and the new *)
(* file set (the supported files of the scanned workspace) together with   *)
(* the files whose SHA-256 changed: no unchanged file is reported and no   *)
(* changed file is missed.                                                 *)
(***************************************************************************)
Reported == {fc.path : fc \in {x \in file_changes : x.status # "unchanged"}}

level_order ==
    <<"Parameter", "Variable", "Method", "Function", "Class", "Interface",
      "File", "Directory">>

type_to_level == [l \in Range(level_order) |->
                    CHOOSE i \in DOMAIN level_order : level_order[i] = l]

\* generated_summary IS NULL OR generated_summary = ''
Unsummarized(n) == n.generated_summary = Null \/ n.generated_summary = ""

\* ORDER BY n.full_name: the graphs below give every node a full_name equal
\* to its name, and the names collate in this order.
Collation == <<"c1", "d1", "f1", "g1", "k1", "m1", "m2", "p1">>

Position(name) == CHOOSE i \in DOMAIN Collation : Collation[i] = name

RECURSIVE OrderByFullName(_)
OrderByFullName(S) ==
    IF S = {} THEN << >>
    ELSE LET n == CHOOSE x \in S :
                     \A y \in S : Position(x.name) <= Position(y.name)
         IN <<n>> \o OrderByFullName(S \ {n})

\* SummarizationNode, as far as the scheduler uses it
SummarizationNode(n) == [id |-> n.id, node_type |-> n.label]

\* HierarchicalSummarizationOrchestrator._get_nodes_by_level
GetNodesByLevelAnyLabel(ns, level) ==
    LET hit == {n \in ns : /\ n.label \in Range(level_order)
                           /\ Unsummarized(n)
                           /\ (n.summary_status = Null
                               \/ n.summary_status # "PROCESSING")}
        ordered == OrderByFullName(hit)
    IN [i \in DOMAIN ordered |-> SummarizationNode(ordered[i])]

GetNodesByLevel(ns, level) ==
    LET hit == {n \in ns : /\ n.label = level_order[level]
                           /\ Unsummarized(n)
                           /\ (n.summary_status = Null
                               \/ n.summary_status # "PROCESSING")}
        ordered == OrderByFullName(hit)
    IN [i \in DOMAIN ordered |-> SummarizationNode(ordered[i])]

ContainmentTypes == {"CONTAINS", "DEFINES", "DECLARES"}

\* MATCH (parent {id: $node_id})-[:CONTAINS|:DEFINES|:DECLARES]->(child)
Children(ns, es, id) ==
    {c \in ns : \E p \in NodesWithId(ns, id), t \in ContainmentTypes :
                    [src |-> Key(p), type |-> t, tgt |-> Key(c)] \in DOMAIN es}

DependencyLabels ==
    {"Parameter", "Variable", "Method", "Function", "Class", "Interface"}

\* HierarchicalSummarizationOrchestrator._check_dependencies_ready
CheckDependenciesReady(ns, es, id) ==
    {c \in Children(ns, es, id) :
        Unsummarized(c) /\ c.label \in DependencyLabels} = {}

\* MATCH (n {id: $node_id}) SET n.summary_status = status
SetSummaryStatus(ns, id, status) ==
    {IF n.id = id THEN [n EXCEPT !.summary_status = status] ELSE n : n \in ns}

\* _mark_node_processing and _mark_node_completed
MarkNodeProcessing(ns, id) == SetSummaryStatus(ns, id, "PROCESSING")

MarkNodeCompleted(ns, id) == SetSummaryStatus(ns, id, "COMPLETED")

\* LLMEmbeddingIntegration.update_node_summary, the query ran:
\* MATCH (n {id: $node_id}) SET n.generated_summary = $summary
SetGeneratedSummary(ns, id, summary) ==
    {IF n.id = id THEN [n EXCEPT !.generated_summary = summary] ELSE n : n \in ns}

\* node_type.lower()
Lower ==
    [l \in Range(level_order) |->
        CASE l = "Parameter" -> "parameter" [] l = "Variable" -> "variable"
          [] l = "Method" -> "method"       [] l = "Function" -> "function"
          [] l = "Class" -> "class"         [] l = "Interface" -> "interface"
          [] l = "File" -> "file"           [] l = "Directory" -> "directory"]

\* What one request to the LLM API does: it returns a text, returns an empty
\* text, or raises.
LLMOutcomes == {"text", "empty", "error"}

\* LLMSummarizer.generate_summary: the SummaryResult of one request.  The
\* except branch returns a result whose summary is a fixed sentence and whose
\* token_count is 0.
GenerateSummary(node, outcome) ==
    CASE outcome = "text" ->
            [summary |-> "summary of " \o node.id, token_count |-> 1]
      [] outcome = "empty" -> [summary |-> "", token_count |-> 1]
      [] outcome = "error" ->
            [summary |-> "Code " \o Lower[node.node_type]
                                 \o " - summary generation failed",
             token_count |-> 0]

\* LLMSummarizer.generate_summaries_batch: one result per submitted node, in
\* order.  generate_summary raises nothing, so gather returns no exception.
GenerateSummariesBatch(batch, outcome) ==
    [i \in DOMAIN batch |-> GenerateSummary(batch[i], outcome[i])]

\* the texts the LLM API returned in a batch
Returned(batch, outcome) ==
    {<<batch[i].id, GenerateSummary(batch[i], outcome[i]).summary>> :
        i \in {j \in DOMAIN batch : outcome[j] # "error"}}

\* LLMEmbeddingIntegration.get_nodes_needing_summaries: the matching nodes
EnrichmentLabels == {"Class", "Method", "Function", "Interface"}

NodesNeedingSummaries(ns) ==
    {n \in ns : /\ n.raw_code # Null
                /\ Unsummarized(n)
                /\ n.label \in EnrichmentLabels}

\* all orders in which a query without ORDER BY can return the set S
Orderings(S) ==
    {s \in [1..Cardinality(S) -> S] : \A x \in S : \E i \in DOMAIN s : s[i] = x}

\* LLMEmbeddingIntegration.get_nodes_needing_embeddings: the matching nodes
EmbeddingLabels ==
    {"File", "Class", "Method", "Function", "Variable", "Interface"}

NodesNeedingEmbeddings(ns) ==
    {n \in ns : /\ n.generated_summary # Null
                /\ n.embedding = Null
                /\ n.label \in EmbeddingLabels}

\* LLMEmbeddingIntegration.process_embeddings_batch until it returns 0, every
\* embedding generated and stored
ProcessEmbeddings(ns) ==
    {IF n \in NodesNeedingEmbeddings(ns) THEN [n EXCEPT !.embedding = "vector"]
     ELSE n : n \in ns}

(***************************************************************************)
(* The local state of a run.  pc names the call the run makes next.        *)
(* marked is the set of nodes the run has set to PROCESSING so far.        *)
(***************************************************************************)
DefaultBatchSize == 20      \* summarize --batch-size
SummaryBatchSize == 50      \* run_full_enrichment(summary_batch_size)
SmallBatchSize == 1         \* a --batch-size below the size of a level

BatchSizes == {SmallBatchSize, DefaultBatchSize}

IdleRun ==
    [pc |-> "idle", level |-> 0, batch_size |-> 0, nodes |-> << >>,
     ready_nodes |-> << >>, summary_results |-> << >>, i |-> 0,
     updated |-> FALSE, successful_updates |-> 0, marked |-> {}]

Locals(r) ==
    [r EXCEPT !.nodes = << >>, !.ready_nodes = << >>,
              !.summary_results = << >>, !.i = 0, !.updated = FALSE,
              !.successful_updates = 0]

\* an exception leaves run_llm_enrichment
Raise(r) == [Locals(r) EXCEPT !.pc = "failed"]

\* run_hierarchical_summarization: the next level, and after the last level
\* run_full_enrichment
NextLevel(r) ==
    IF r.level < Len(level_order)
    THEN [Locals(r) EXCEPT !.pc = "get_nodes_by_level", !.level = @ + 1]
    ELSE [Locals(r) EXCEPT !.pc = "get_nodes_needing_summaries", !.level = 0]

\* get_nodes_ready_for_processing, the control of its loop, and the test of
\* process_level on what it returns
ClaimLoop(r) ==
    IF r.nodes # << >> /\ Len(r.ready_nodes) < r.batch_size
    THEN [r EXCEPT !.pc = "check_dependencies_ready"]
    ELSE IF r.ready_nodes = << >> THEN NextLevel(r)
         ELSE [r EXCEPT !.pc = "generate_summaries_batch", !.nodes = << >>,
                        !.i = 1]

Step(w, r) == run' = [run EXCEPT ![w] = r]

otherVars ==
    <<rels, opCount, lastRels, lastMatched, repeated, lastDelete, workspace,
      file_changes, scan, gather, tasks, semaphore, pipeline, search>>

\* run_llm_enrichment calls run_hierarchical_summarization
run_hierarchical_summarization(w) ==
    /\ run[w].pc = "idle"
    /\ \E b \in BatchSizes :
          Step(w, [IdleRun EXCEPT !.pc = "get_nodes_by_level", !.level = 1,
                                  !.batch_size = b])
    /\ UNCHANGED <<nodes, responses, otherVars>>

\* get_nodes_ready_for_processing: nodes = self._get_nodes_by_level(level)
get_nodes_by_level(w, raises) ==
    /\ run[w].pc = "get_nodes_by_level"
    /\ IF raises THEN Step(w, Raise(run[w]))
       ELSE Step(w, ClaimLoop([run[w] EXCEPT
                        !.nodes = GetNodesByLevel(nodes, run[w].level),
                        !.ready_nodes = << >>]))
    /\ UNCHANGED <<nodes, responses, otherVars>>

\* get_nodes_ready_for_processing: if self._check_dependencies_ready(node.id)
check_dependencies_ready(w, raises) ==
    /\ run[w].pc = "check_dependencies_ready"
    /\ LET r == run[w] IN
       IF raises THEN Step(w, Raise(r))
       ELSE IF CheckDependenciesReady(nodes, rels, Head(r.nodes).id)
            THEN Step(w, [r EXCEPT !.pc = "mark_node_processing"])
            ELSE Step(w, ClaimLoop([r EXCEPT !.nodes = Tail(@)]))
    /\ UNCHANGED <<nodes, responses, otherVars>>

\* get_nodes_ready_for_processing: self._mark_node_processing(node.id)
mark_node_processing(w, raises) ==
    /\ run[w].pc = "mark_node_processing"
    /\ LET r == run[w]
           id == Head(r.nodes).id IN
       IF raises THEN Step(w, Raise(r)) /\ UNCHANGED nodes
       ELSE /\ nodes' = MarkNodeProcessing(nodes, id)
            /\ Step(w, [r EXCEPT !.pc = "enrich_node_with_context",
                                 !.marked = @ \cup {id}])
    /\ UNCHANGED <<responses, otherVars>>

\* get_nodes_ready_for_processing: self._enrich_node_with_context(node), two
\* read queries whose result goes into the prompt only, and
\* ready_nodes.append
enrich_node_with_context(w, raises) ==
    /\ run[w].pc = "enrich_node_with_context"
    /\ LET r == run[w] IN
       IF raises THEN Step(w, Raise(r))
       ELSE Step(w, ClaimLoop([r EXCEPT
                        !.ready_nodes = Append(@, Head(r.nodes)),
                        !.nodes = Tail(@)]))
    /\ UNCHANGED <<nodes, responses, otherVars>>

\* process_level: summary_results = await ...generate_summaries_batch(...)
generate_summaries_batch(w, LLM) ==
    /\ run[w].pc = "generate_summaries_batch"
    /\ LET r == run[w] IN
       \E outcome \in [DOMAIN r.ready_nodes -> LLM] :
          /\ Step(w, [r EXCEPT
                    !.summary_results =
                        GenerateSummariesBatch(r.ready_nodes, outcome),
                    !.pc = "update_node_summary"])
          /\ responses' = responses \cup Returned(r.ready_nodes, outcome)
    /\ UNCHANGED <<nodes, otherVars>>

\* process_level: llm_integration.update_node_summary(node.id, summary); a
\* query that raises makes it return False
update_node_summary(w, raises) ==
    /\ run[w].pc = "update_node_summary"
    /\ LET r == run[w]
           id == r.ready_nodes[r.i].id
           summary == r.summary_results[r.i].summary IN
       IF raises
       THEN /\ Step(w, [r EXCEPT !.pc = "mark_node_completed",
                                 !.updated = FALSE])
            /\ UNCHANGED nodes
       ELSE /\ nodes' = SetGeneratedSummary(nodes, id, summary)
            /\ Step(w, [r EXCEPT !.pc = "mark_node_completed",
                                 !.updated = (NodesWithId(nodes, id) # {})])
    /\ UNCHANGED <<responses, otherVars>>

\* process_level: self._mark_node_completed(node.id), called in both branches
\* of the test on update_node_summary; after the last node of the batch the
\* while loop of process_level fetches again
mark_node_completed(w, raises) ==
    /\ run[w].pc = "mark_node_completed"
    /\ LET r == run[w]
           id == r.ready_nodes[r.i].id IN
       IF raises
       THEN Step(w, [r EXCEPT !.pc = "except"]) /\ UNCHANGED nodes
       ELSE /\ nodes' = MarkNodeCompleted(nodes, id)
            /\ IF r.i < Len(r.ready_nodes)
               THEN Step(w, [r EXCEPT !.pc = "update_node_summary",
                                      !.i = @ + 1, !.updated = FALSE])
               ELSE Step(w, [Locals(r) EXCEPT !.pc = "get_nodes_by_level"])
    /\ UNCHANGED <<responses, otherVars>>

\* process_level, except branch: _mark_node_completed for every node of
\* ready_nodes, then break.  The first k queries run; when k is below the
\* length the next one raises and the exception leaves the run.
process_level_except(w, k) ==
    /\ run[w].pc = "except"
    /\ LET r == run[w]
           ids == {r.ready_nodes[j].id : j \in 1..k} IN
       /\ k \in 0..Len(r.ready_nodes)
       /\ nodes' = {IF n.id \in ids THEN [n EXCEPT !.summary_status = "COMPLETED"]
                    ELSE n : n \in nodes}
       /\ IF k = Len(r.ready_nodes) THEN Step(w, NextLevel(r))
          ELSE Step(w, Raise(r))
    /\ UNCHANGED <<responses, otherVars>>

Min(a, b) == IF a <= b THEN a ELSE b

\* process_summaries_batch: nodes = await self.get_nodes_needing_summaries(
\* batch_size); the query has no ORDER BY and a LIMIT.  With no node,
\* process_summaries_batch returns 0 and run_full_enrichment goes on to the
\* embeddings.
get_nodes_needing_summaries(w, raises) ==
    /\ run[w].pc = "get_nodes_needing_summaries"
    /\ LET r == run[w] IN
       IF raises THEN Step(w, Raise(r))
       ELSE \E order \in Orderings(NodesNeedingSummaries(nodes)) :
               LET batch == [i \in 1..Min(Len(order), SummaryBatchSize) |->
                                SummarizationNode(order[i])] IN
               IF batch = << >>
               THEN Step(w, [Locals(r) EXCEPT !.pc = "process_embeddings"])
               ELSE Step(w, [r EXCEPT !.pc = "process_summaries_batch",
                                      !.nodes = batch])
    /\ UNCHANGED <<nodes, responses, otherVars>>

\* process_summaries_batch: summary_results = await
\* self.llm_summarizer.generate_summaries_batch(texts, node_types, ...)
process_summaries_batch(w, LLM) ==
    /\ run[w].pc = "process_summaries_batch"
    /\ LET r == run[w] IN
       \E outcome \in [DOMAIN r.nodes -> LLM] :
          /\ Step(w, [r EXCEPT
                    !.summary_results = GenerateSummariesBatch(r.nodes, outcome),
                    !.pc = "process_summaries_update", !.i = 1,
                    !.successful_updates = 0])
          /\ responses' = responses \cup Returned(r.nodes, outcome)
    /\ UNCHANGED <<nodes, otherVars>>

\* process_summaries_batch: the loop over zip(nodes, summary_results), one
\* update_node_summary per step; run_full_enrichment repeats the batch unless
\* it updated nothing
process_summaries_update(w, raises) ==
    /\ run[w].pc = "process_summaries_update"
    /\ LET r == run[w]
           id == r.nodes[r.i].id
           ok == ~raises /\ NodesWithId(nodes, id) # {}
           count == r.successful_updates + (IF ok THEN 1 ELSE 0) IN
       /\ nodes' = IF raises THEN nodes
                   ELSE SetGeneratedSummary(nodes, id, r.summary_results[r.i].summary)
       /\ IF r.i < Len(r.nodes)
          THEN Step(w, [r EXCEPT !.i = @ + 1, !.successful_updates = count])
          ELSE IF count = 0
               THEN Step(w, [Locals(r) EXCEPT !.pc = "process_embeddings"])
               ELSE Step(w, [Locals(r) EXCEPT !.pc = "get_nodes_needing_summaries"])
    /\ UNCHANGED <<responses, otherVars>>

\* run_full_enrichment: the embedding loop, then run_llm_enrichment returns
process_embeddings(w) ==
    /\ run[w].pc = "process_embeddings"
    /\ nodes' = ProcessEmbeddings(nodes)
    /\ Step(w, [run[w] EXCEPT !.pc = "done"])
    /\ UNCHANGED <<responses, otherVars>>

(***************************************************************************)
(* The stores the summarization starts from: ingested graphs without any   *)
(* summary.  A parser gives classes, methods and functions a raw_code.     *)
(***************************************************************************)
GraphNode(label, id) ==
    [StoredNode(label, id, IF IsFileLike(label) THEN id ELSE Null)
        EXCEPT !.raw_code = IF label \in {"Class", "Method", "Function"}
                            THEN "code" ELSE Null]

GraphEdge(sl, s, type, tl, t) ==
    [src |-> <<sl, s>>, type |-> type, tgt |-> <<tl, t>>]

\* a file with a class that defines two methods, one calling the other
ClassGraph ==
    [nodes |-> {GraphNode("File", "f1"), GraphNode("Class", "c1"),
                GraphNode("Method", "m1"), GraphNode("Method", "m2")},
     edges |-> {GraphEdge("File", "f1", "CONTAINS", "Class", "c1"),
                GraphEdge("Class", "c1", "DEFINES", "Method", "m1"),
                GraphEdge("Class", "c1", "DEFINES", "Method", "m2"),
                GraphEdge("Method", "m1", "CALLS", "Method", "m2")}]

\* a method that defines a local class
LocalClassGraph ==
    [nodes |-> {GraphNode("File", "f1"), GraphNode("Class", "c1"),
                GraphNode("Method", "m1"), GraphNode("Class", "k1")},
     edges |-> {GraphEdge("File", "f1", "CONTAINS", "Class", "c1"),
                GraphEdge("Class", "c1", "DEFINES", "Method", "m1"),
                GraphEdge("Method", "m1", "DEFINES", "Class", "k1")}]

\* a directory with a file that contains a function with a parameter
DirectoryGraph ==
    [nodes |-> {GraphNode("Directory", "d1"), GraphNode("File", "f1"),
                GraphNode("Function", "g1"), GraphNode("Parameter", "p1")},
     edges |-> {GraphEdge("Directory", "d1", "CONTAINS", "File", "f1"),
                GraphEdge("File", "f1", "CONTAINS", "Function", "g1"),
                GraphEdge("Function", "g1", "DECLARES", "Parameter", "p1")}]

SummaryGraphs == {ClassGraph, LocalClassGraph, DirectoryGraph}

InitSummarizeRuns(R) ==
    /\ \E g \in SummaryGraphs :
          nodes = g.nodes /\ rels = [e \in g.edges |-> 1]
    /\ opCount = 0
    /\ run = [w \in R |-> IdleRun]
    /\ responses = {}
    /\ IngestIdle
    /\ DeleteIdle
    /\ DetectIdle
    /\ BatchIdle
    /\ PipelineIdle
    /\ SearchIdle

\* one run; every store query succeeds and the LLM returns a text
InitSummarize == InitSummarizeRuns({"r1"})

Summarize(w) ==
    \/ run_hierarchical_summarization(w)
    \/ get_nodes_by_level(w, FALSE)
    \/ check_dependencies_ready(w, FALSE)
    \/ mark_node_processing(w, FALSE)
    \/ enrich_node_with_context(w, FALSE)
    \/ generate_summaries_batch(w, {"text"})
    \/ update_node_summary(w, FALSE)
    \/ mark_node_completed(w, FALSE)
    \/ get_nodes_needing_summaries(w, FALSE)
    \/ process_summaries_batch(w, {"text"})
    \/ process_summaries_update(w, FALSE)
    \/ process_embeddings(w)

NextSummarize == Summarize("r1")

SpecSummarize == InitSummarize /\ [][NextSummarize]_vars

\* two runs on the same store, started independently
InitSummarizeConcurrent == InitSummarizeRuns({"r1", "r2"})

NextSummarizeConcurrent == Summarize("r1") \/ Summarize("r2")

SpecSummarizeConcurrent ==
    InitSummarizeConcurrent /\ [][NextSummarizeConcurrent]_vars

\* one run; a store query can raise and an LLM request can fail or return an
\* empty text
SummarizeFaults(w) ==
    \/ run_hierarchical_summarization(w)
    \/ \E raises \in BOOLEAN : get_nodes_by_level(w, raises)
    \/ \E raises \in BOOLEAN : check_dependencies_ready(w, raises)
    \/ \E raises \in BOOLEAN : mark_node_processing(w, raises)
    \/ \E raises \in BOOLEAN : enrich_node_with_context(w, raises)
    \/ generate_summaries_batch(w, LLMOutcomes)
    \/ \E raises \in BOOLEAN : update_node_summary(w, raises)
    \/ \E raises \in BOOLEAN : mark_node_completed(w, raises)
    \/ \E k \in 0..Cardinality(nodes) : process_level_except(w, k)
    \/ \E raises \in BOOLEAN : get_nodes_needing_summaries(w, raises)
    \/ process_summaries_batch(w, LLMOutcomes)
    \/ \E raises \in BOOLEAN : process_summaries_update(w, raises)
    \/ process_embeddings(w)

NextSummarizeFaults == SummarizeFaults("r1")

SpecSummarizeFaults == InitSummarize /\ [][NextSummarizeFaults]_vars

(***************************************************************************)
(* Claims about the summarization scheduler.                               *)
(***************************************************************************)
\* the nodes run r has set to PROCESSING and not yet marked completed
Leased(r) ==
    {r.ready_nodes[j].id : j \in {k \in DOMAIN r.ready_nodes : k >= r.i}}
    \cup (IF r.pc = "enrich_node_with_context" THEN {Head(r.nodes).id} ELSE {})

\* C6: with two summarization runs on one store, in every interleaving of
\* their queries no node is claimed by both runs; the processing marker is
\* held by at most one run per node.
C6_LeaseExclusive ==
    \A w1 \in DOMAIN run, w2 \in DOMAIN run :
        w1 # w2 => Leased(run[w1]) \cap Leased(run[w2]) = {}

\* the children of n whose label belongs to a lower level than the label of n
LowerLevelChildren(ns, es, n) ==
    {c \in Children(ns, es, n.id) :
        /\ n.label \in DOMAIN type_to_level
        /\ c.label \in DOMAIN type_to_level
        /\ type_to_level[c.label] < type_to_level[n.label]}

SummaryWritten(n) ==
    \E m \in nodes' : /\ Key(m) = Key(n)
                      /\ m.generated_summary # n.generated_summary

\* C7: whenever generated_summary is written on a node during a run
\* (hierarchical pass and the enrichment pass after it), every child of the
\* node via CONTAINS, DEFINES or DECLARES whose label belongs to a lower level
\* already has a non-empty generated_summary.
C7_LevelMonotonicity ==
    [][\A n \in nodes :
          SummaryWritten(n) =>
              \A c \in LowerLevelChildren(nodes, rels, n) : ~Unsummarized(c)]_vars

\* C8: a node's generated_summary is non-empty only if it is the text a
\* successful LLM call returned for that node.
C8_NoPlaceholderSummary ==
    \A n \in nodes :
        ~Unsummarized(n) => <<n.id, n.generated_summary>> \in responses

\* run w finishes the handling of the node at position i of its batch
Handled(w) ==
    /\ run[w].pc = "mark_node_completed"
    /\ run'[w].pc \in {"update_node_summary", "get_nodes_by_level"}

\* C9: when the summary generation of a claimed node failed, or the write of
\* its summary failed, the node's summary_status ends up cleared and its
\* generated_summary stays unset.
C9_FailureClearsStatus ==
    [][\A w \in DOMAIN run :
          LET r == run[w] IN
          (Handled(w) /\ (r.summary_results[r.i].token_count = 0 \/ ~r.updated))
              => \A n \in NodesWithId(nodes', r.ready_nodes[r.i].id) :
                    n.summary_status = Null /\ n.generated_summary = Null]_vars

\* C10: once a run has returned or has failed, no node that the run set to
\* PROCESSING still has that status, whichever query, enrichment or
\* generation failed.
C10_LeasesReleased ==
    \A w \in DOMAIN run :
        run[w].pc \in {"done", "failed"} =>
            \A n \in nodes :
                n.id \in run[w].marked => n.summary_status # "PROCESSING"

(***************************************************************************)
(* chunker_orchestrator.py: process_files_batch and process_file, and      *)
(* llm_integration.py: generate_summaries_batch, as asyncio tasks.         *)
(*                                                                         *)
(* Both create one task per item and gather them; a task enters its work   *)
(* through "async with semaphore".  A step is what a task does between two *)
(* awaits.  tasks[i] is the task of the i-th item: pc is the await it is   *)
(* suspended at, temp_file says whether its temporary output file exists,  *)
(* process is the state of its parser subprocess, request the state of its *)
(* LLM request.  gather.saturated records the kinds of batch in which      *)
(* every permit was in use while a further task was waiting for one.       *)
(***************************************************************************)
DefaultMaxConcurrent == 5   \* process_files_batch(max_concurrent=5)
LLMMaxConcurrent == 5       \* generate_summaries_batch(..., max_concurrent=5)
MaxWidth == 2               \* widths below the default that are explored
MaxBatchFiles == 3          \* files per batch
MaxRequests == 6            \* LLM requests per batch

\* ChunkerOrchestrator.get_chunker_for_file: extension_map
extension_map ==
    [e \in {".py", ".cs", ".js", ".jsx", ".mjs", ".cjs", ".ts", ".tsx"} |->
        CASE e = ".py" -> "python"
          [] e = ".cs" -> "csharp"
          [] e \in {".js", ".jsx", ".mjs", ".cjs"} -> "javascript"
          [] e \in {".ts", ".tsx"} -> "typescript"]

\* ChunkerOrchestrator._setup_chunkers: the chunkers found under the project
\* root; here the Python chunker only
chunkers == {"python"}

\* ChunkerOrchestrator.get_chunker_for_file: the language, or Null
GetChunkerForFile(f) ==
    IF f.suffix \in DOMAIN extension_map /\ extension_map[f.suffix] \in chunkers
    THEN extension_map[f.suffix]
    ELSE Null

\* the files handed to process_files_batch
ParseFiles ==
    {[path |-> "x.py", suffix |-> ".py"], [path |-> "s/y.py", suffix |-> ".py"],
     [path |-> "w.cs", suffix |-> ".cs"]}

ParseBatches ==
    {fs \in SeqsUpTo(ParseFiles, MaxBatchFiles) :
        \A i \in DOMAIN fs, j \in DOMAIN fs : fs[i] = fs[j] => i = j}

Widths == (1..MaxWidth) \cup {DefaultMaxConcurrent}

\* what a task returns: None, an exception, a ChunkerOutput, a SummaryResult
None == [kind |-> "none", of |-> Null]

ExceptionResult == [kind |-> "exception", of |-> Null]

ChunkerOutput(f) == [kind |-> "output", of |-> f.path]

NewTask(item) ==
    [item |-> item, pc |-> "created", temp_file |-> FALSE, process |-> "none",
     request |-> "none", timed_out |-> FALSE, returncode |-> Null,
     output |-> Null, result |-> None]

\* what the parser left in the temporary file when it exited
ParserOutputs == {"valid", "malformed", "missing"}

ReturnCodes == {"0", "1"}

ProcessFileResultAnyExit(f, returncode, output) ==
    IF output = "valid" THEN ChunkerOutput(f) ELSE None

\* process_file after communicate(): the return code, then the output file
ProcessFileResult(f, returncode, output) ==
    IF returncode # "0" THEN None
    ELSE IF output = "valid" THEN ChunkerOutput(f)
    ELSE None

\* async with semaphore: a task enters when a permit is free
CanAcquireAlways(permits) == TRUE

CanAcquire(permits) == permits > 0

\* process_file, finally: the temporary file is removed if it exists
UnlinkSkipped(task) == task

Unlink(task) == [task EXCEPT !.temp_file = FALSE]

Running(ts) == {i \in DOMAIN ts : ts[i].process \in {"running", "killed"}}

InFlight(ts) == {i \in DOMAIN ts : ts[i].request = "in_flight"}

Saturated(g, ts) ==
    IF /\ Cardinality(Running(ts)) + Cardinality(InFlight(ts)) = g.max_concurrent
       /\ \E i \in DOMAIN ts : ts[i].pc = "created"
    THEN g.saturated \cup {g.kind}
    ELSE g.saturated

nonBatchVars ==
    <<nodes, rels, lastRels, lastMatched, repeated, lastDelete, workspace,
      file_changes, scan, run, responses, pipeline, search>>

\* process_files_batch: the semaphore and one task per file
process_files_batch(files, max_concurrent) ==
    /\ gather.pc \in {"idle", "returned"}
    /\ opCount < MaxOps
    /\ opCount' = opCount + 1
    /\ gather' = [gather EXCEPT !.kind = "parse", !.pc = "gather",
                                !.max_concurrent = max_concurrent,
                                !.successful_outputs = << >>]
    /\ tasks' = [i \in DOMAIN files |-> NewTask(files[i])]
    /\ semaphore' = max_concurrent
    /\ UNCHANGED nonBatchVars

\* process_with_semaphore enters the semaphore and process_file runs to its
\* first await: without a chunker it returns None at once; else it creates the
\* temporary file (tempOk) or NamedTemporaryFile raises, outside the try
process_with_semaphore(i, tempOk) ==
    /\ gather.kind = "parse"
    /\ i \in DOMAIN tasks
    /\ tasks[i].pc = "created"
    /\ CanAcquire(semaphore)
    /\ IF GetChunkerForFile(tasks[i].item) = Null
       THEN /\ tasks' = [tasks EXCEPT ![i].pc = "done", ![i].result = None]
            /\ UNCHANGED semaphore
       ELSE IF tempOk
            THEN /\ tasks' = [tasks EXCEPT ![i].pc = "create_subprocess_exec",
                                           ![i].temp_file = TRUE]
                 /\ semaphore' = semaphore - 1
            ELSE /\ tasks' = [tasks EXCEPT ![i].pc = "done",
                                           ![i].result = ExceptionResult]
                 /\ UNCHANGED semaphore
    /\ UNCHANGED <<gather, opCount, nonBatchVars>>

\* process_file: asyncio.create_subprocess_exec starts the parser, or raises
\* and the except branch returns None; finally removes the temporary file
create_subprocess_exec(i, ok) ==
    /\ gather.kind = "parse"
    /\ i \in DOMAIN tasks
    /\ tasks[i].pc = "create_subprocess_exec"
    /\ IF ok
       THEN LET ts == [tasks EXCEPT ![i].pc = "communicate",
                                    ![i].process = "running"] IN
            /\ tasks' = ts
            /\ gather' = [gather EXCEPT !.saturated = Saturated(gather, ts)]
            /\ UNCHANGED semaphore
       ELSE /\ tasks' = [tasks EXCEPT
                            ![i] = Unlink([@ EXCEPT !.pc = "done", !.result = None])]
            /\ semaphore' = semaphore + 1
            /\ UNCHANGED gather
    /\ UNCHANGED <<opCount, nonBatchVars>>

\* process_file: the parser exits within the timeout; the return code is
\* tested, the output file read and parsed, the temporary file removed
communicate(i, returncode, output) ==
    /\ gather.kind = "parse"
    /\ i \in DOMAIN tasks
    /\ tasks[i].pc = "communicate"
    /\ tasks' = [tasks EXCEPT
                    ![i] = Unlink([@ EXCEPT
                        !.pc = "done", !.process = "exited",
                        !.returncode = returncode, !.output = output,
                        !.result = ProcessFileResult(tasks[i].item, returncode, output)])]
    /\ semaphore' = semaphore + 1
    /\ UNCHANGED <<gather, opCount, nonBatchVars>>

\* process_file: asyncio.TimeoutError, process.kill(). The parser may have
\* exited in the meantime (exited): kill() then raises ProcessLookupError, the
\* except branch returns None and finally removes the temporary file.
wait_for_timeout(i, exited) ==
    /\ gather.kind = "parse"
    /\ i \in DOMAIN tasks
    /\ tasks[i].pc = "communicate"
    /\ IF exited
       THEN /\ tasks' = [tasks EXCEPT
                            ![i] = Unlink([@ EXCEPT !.pc = "done", !.timed_out = TRUE,
                                                    !.process = "exited",
                                                    !.result = None])]
            /\ semaphore' = semaphore + 1
       ELSE /\ tasks' = [tasks EXCEPT ![i].pc = "wait", ![i].timed_out = TRUE,
                                      ![i].process = "killed"]
            /\ UNCHANGED semaphore
    /\ UNCHANGED <<gather, opCount, nonBatchVars>>

\* process_file: await process.wait() returns, return None, finally
process_wait(i) ==
    /\ gather.kind = "parse"
    /\ i \in DOMAIN tasks
    /\ tasks[i].pc = "wait"
    /\ tasks' = [tasks EXCEPT
                    ![i] = Unlink([@ EXCEPT !.pc = "done", !.process = "reaped",
                                            !.result = None])]
    /\ semaphore' = semaphore + 1
    /\ UNCHANGED <<gather, opCount, nonBatchVars>>

\* process_files_batch after gather: the results that are neither an
\* exception nor None, in the order of the files
RECURSIVE SuccessfulOutputs(_)
SuccessfulOutputs(results) ==
    IF results = << >> THEN << >>
    ELSE IF Head(results).kind = "output"
         THEN <<Head(results)>> \o SuccessfulOutputs(Tail(results))
         ELSE SuccessfulOutputs(Tail(results))

\* process_files_batch: asyncio.gather returns when every task is done
gather_outputs ==
    /\ gather.kind = "parse"
    /\ gather.pc = "gather"
    /\ \A i \in DOMAIN tasks : tasks[i].pc = "done"
    /\ gather' = [gather EXCEPT
                    !.pc = "returned",
                    !.successful_outputs =
                        SuccessfulOutputs([i \in DOMAIN tasks |-> tasks[i].result])]
    /\ UNCHANGED <<tasks, semaphore, opCount, nonBatchVars>>

\* generate_summaries_batch: the semaphore and one task per text
create_summary_tasks(n) ==
    /\ gather.pc \in {"idle", "returned"}
    /\ opCount < MaxOps
    /\ opCount' = opCount + 1
    /\ gather' = [gather EXCEPT !.kind = "llm", !.pc = "gather",
                                !.max_concurrent = LLMMaxConcurrent,
                                !.successful_outputs = << >>]
    /\ tasks' = [i \in 1..n |-> NewTask([path |-> Null, suffix |-> Null])]
    /\ semaphore' = LLMMaxConcurrent
    /\ UNCHANGED nonBatchVars

\* generate_with_semaphore enters the semaphore and generate_summary awaits
\* self.client.messages.create
generate_with_semaphore(i) ==
    /\ gather.kind = "llm"
    /\ i \in DOMAIN tasks
    /\ tasks[i].pc = "created"
    /\ CanAcquire(semaphore)
    /\ LET ts == [tasks EXCEPT ![i].pc = "messages_create",
                               ![i].request = "in_flight"] IN
       /\ tasks' = ts
       /\ gather' = [gather EXCEPT !.saturated = Saturated(gather, ts)]
    /\ semaphore' = semaphore - 1
    /\ UNCHANGED <<opCount, nonBatchVars>>

\* generate_summary: the request returns a text (empty or not, the same path
\* here) or raises, a SummaryResult is returned either way, and the semaphore
\* is left
messages_create(i, outcome) ==
    /\ gather.kind = "llm"
    /\ i \in DOMAIN tasks
    /\ tasks[i].pc = "messages_create"
    /\ tasks' = [tasks EXCEPT ![i].pc = "done", ![i].request = "closed",
                              ![i].result = [kind |-> outcome, of |-> Null]]
    /\ semaphore' = semaphore + 1
    /\ UNCHANGED <<gather, opCount, nonBatchVars>>

\* generate_summaries_batch: asyncio.gather returns when every task is done
gather_summaries ==
    /\ gather.kind = "llm"
    /\ gather.pc = "gather"
    /\ \A i \in DOMAIN tasks : tasks[i].pc = "done"
    /\ gather' = [gather EXCEPT
                    !.pc = "returned",
                    !.successful_outputs = [i \in DOMAIN tasks |-> tasks[i].result]]
    /\ UNCHANGED <<tasks, semaphore, opCount, nonBatchVars>>

\* An index run parses its files in one batch; a summarization run sends one
\* batch of LLM requests after the other.
InitBatch ==
    /\ nodes = {}
    /\ rels = << >>
    /\ opCount = 0
    /\ IngestIdle
    /\ DeleteIdle
    /\ DetectIdle
    /\ SummarizeIdle
    /\ BatchIdle
    /\ PipelineIdle
    /\ SearchIdle

NextBatch ==
    \/ \E files \in ParseBatches, max_concurrent \in Widths :
          process_files_batch(files, max_concurrent)
    \/ \E i \in 1..MaxBatchFiles, tempOk \in BOOLEAN : process_with_semaphore(i, tempOk)
    \/ \E i \in 1..MaxBatchFiles, ok \in BOOLEAN : create_subprocess_exec(i, ok)
    \/ \E i \in 1..MaxBatchFiles, returncode \in ReturnCodes, output \in ParserOutputs :
          communicate(i, returncode, output)
    \/ \E i \in 1..MaxBatchFiles, exited \in BOOLEAN : wait_for_timeout(i, exited)
    \/ \E i \in 1..MaxBatchFiles : process_wait(i)
    \/ gather_outputs
    \/ \E n \in 0..MaxRequests : create_summary_tasks(n)
    \/ \E i \in 1..MaxRequests : generate_with_semaphore(i)
    \/ \E i \in 1..MaxRequests, outcome \in {"text", "error"} : messages_create(i, outcome)
    \/ gather_summaries

SpecBatch == InitBatch /\ [][NextBatch]_vars

\* C11: at every moment of an index run at most max_concurrent parser
\* subprocesses are running, and at every moment of a summarization run at
\* most 5 LLM requests are in flight.
C11_BoundedConcurrency ==
    /\ gather.kind = "parse" => Cardinality(Running(tasks)) <= gather.max_concurrent
    /\ gather.kind = "llm" => Cardinality(InFlight(tasks)) <= LLMMaxConcurrent

\* both bounds were reached, each with a further task waiting for a permit
C11_Witness ==
    /\ gather.kind = "llm"
    /\ Cardinality(InFlight(tasks)) = LLMMaxConcurrent
    /\ \E i \in DOMAIN tasks : tasks[i].pc = "created"
    /\ gather.saturated = {"parse", "llm"}


\* the ways a file's parse fails that the batch must survive
ExitedNonZero(t) == ~t.timed_out /\ t.process = "exited" /\ t.returncode # "0"

TimedOut(t) == t.timed_out

Unparsable(t) == t.process = "exited" /\ t.returncode = "0" /\ t.output = "malformed"

Parsed(t) == t.process = "exited" /\ t.returncode = "0" /\ t.output = "valid"

FragmentsOf(t) ==
    {k \in DOMAIN gather.successful_outputs :
        gather.successful_outputs[k] = ChunkerOutput(t.item)}

\* C12: when process_files_batch has returned, a file whose parser exited
\* non-zero, exceeded its timeout or wrote unparsable output has no fragment in
\* the returned list, and every file whose parser succeeded has exactly one.
C12_FailuresIsolated ==
    (gather.kind = "parse" /\ gather.pc = "returned") =>
        \A i \in DOMAIN tasks :
            /\ (ExitedNonZero(tasks[i]) \/ TimedOut(tasks[i]) \/ Unparsable(tasks[i]))
                  => FragmentsOf(tasks[i]) = {}
            /\ Parsed(tasks[i]) => Cardinality(FragmentsOf(tasks[i])) = 1

\* a batch returned in which the first file's parser exited non-zero, although
\* it left a valid output, and the fragment of a later file alone was returned
C12_Witness ==
    /\ gather.kind = "parse"
    /\ gather.pc = "returned"
    /\ \E i \in DOMAIN tasks, j \in DOMAIN tasks :
          /\ i < j
          /\ ExitedNonZero(tasks[i]) /\ tasks[i].output = "valid"
          /\ Parsed(tasks[j])
          /\ gather.successful_outputs = <<ChunkerOutput(tasks[j].item)>>

\* C20: when a call of process_file has ended, the temporary output file it
\* created no longer exists (success, non-zero exit, timeout, malformed output
\* and exception alike), and a parser that exceeded its timeout is no longer
\* running: it was killed and waited for, or had exited by itself.
C20_TempFileRemoved ==
    gather.kind = "parse" =>
        \A i \in DOMAIN tasks :
            tasks[i].pc = "done" =>
                /\ ~tasks[i].temp_file
                /\ tasks[i].timed_out => tasks[i].process \in {"reaped", "exited"}

\* a batch in which one call ended after a timeout and a kill, one after the
\* parser wrote malformed output, and both had created a temporary file
C20_Witness ==
    /\ gather.kind = "parse"
    /\ \E i \in DOMAIN tasks, j \in DOMAIN tasks :
          /\ tasks[i].pc = "done" /\ tasks[i].timed_out /\ tasks[i].process = "reaped"
          /\ tasks[j].pc = "done" /\ Unparsable(tasks[j])
          /\ ~tasks[i].temp_file /\ ~tasks[j].temp_file

(***************************************************************************)
(* main_pipeline.py: the index run, and the Python parser it starts        *)
(***************************************************************************)
MaxRuns == 2   \* index runs per behaviour

\* A file's bytes are named by their SHA-256.  open(file_path, 'r').read() in
\* the parser translates "\r\n" to "\n": the text of a file with Windows line
\* ends is the text of the file with Unix line ends.
Contents == {"c1", "c2", "c1_crlf"}

DecodedText(bytes) == IF bytes = "c1_crlf" THEN "c1" ELSE bytes

\* PythonChunker.calculate_checksum: the SHA-256 of the text, encoded again
TextChecksum(text) == text

\* PythonChunker.generate_node_id: prefix and a counter that starts at 0 in
\* every parser process
GenerateNodeId(prefix, node_counter) ==
    prefix \o "_" \o (CASE node_counter = 1 -> "1"
                        [] node_counter = 2 -> "2"
                        [] node_counter = 3 -> "3")

\* the parser's main(): the fragment of one file.  Text c1 holds a class with
\* a method, text c2 a function.
PythonChunker(ws, p) ==
    LET text == DecodedText(ws[p])
        file_node == [id |-> GenerateNodeId("file", 1), label |-> "File",
                      name |-> p, raw_code |-> Null, path |-> p,
                      checksum |-> TextChecksum(text)]
        Code(prefix, label, k, name) ==
            [id |-> GenerateNodeId(prefix, k), label |-> label, name |-> name,
             raw_code |-> "code", path |-> Null, checksum |-> Null]
        Rel(s, type, t) == [source_id |-> s.id, target_id |-> t.id, type |-> type]
    IN IF text = "c1"
       THEN LET class_node == Code("class", "Class", 2, "a")
                func_node == Code("method", "Method", 3, "b")
            IN [nodes |-> <<file_node, class_node, func_node>>,
                relationships |-> <<Rel(file_node, "CONTAINS", class_node),
                                    Rel(class_node, "DEFINES", func_node)>>]
       ELSE LET func_node == Code("function", "Function", 2, "b")
            IN [nodes |-> <<file_node, func_node>>,
                relationships |-> <<Rel(file_node, "CONTAINS", func_node)>>]

\* the order in which scan_directory lists the files (Path.iterdir)
ScanOrder == <<"x.py", "s/y.py", "s/z.py">>

\* process_files: get_files_to_process, then process_files_batch, which
\* returns the fragments in the order of the files; every parser succeeds
ProcessFiles(ws, changes) ==
    LET to_process == {fc.path : fc \in GetFilesToProcess(changes)}
        files == SelectSeq(ScanOrder, LAMBDA p : p \in to_process)
    IN [i \in DOMAIN files |-> PythonChunker(ws, files[i])]

\* ingest_multiple_outputs: all_nodes and all_relationships
RECURSIVE AllNodes(_)
AllNodes(outputs) ==
    IF outputs = << >> THEN << >>
    ELSE Head(outputs).nodes \o AllNodes(Tail(outputs))

RECURSIVE AllRelationships(_)
AllRelationships(outputs) ==
    IF outputs = << >> THEN << >>
    ELSE Head(outputs).relationships \o AllRelationships(Tail(outputs))

\* cleanup_deleted_files: delete_file_subgraph for every deleted file
RECURSIVE CleanupDeletedFiles(_, _)
CleanupDeletedFiles(store, paths) ==
    IF paths = {} THEN store
    ELSE LET p == CHOOSE q \in paths : TRUE
             gone == DeletedKeys(store.nodes, store.rels, p)
         IN CleanupDeletedFiles(
                [nodes |-> {n \in store.nodes : Key(n) \notin gone},
                 rels |-> DetachDelete(store.rels, gone)],
                paths \ {p})

nonIndexVars ==
    <<opCount, lastRels, lastMatched, repeated, lastDelete, workspace, scan,
      run, responses, gather, tasks, semaphore, search>>

\* run_full_pipeline returns True: the store it leaves is recorded
PipelineReturns(store) ==
    [pipeline EXCEPT
        !.pc = "returned", !.runs = @ + 1, !.chunker_outputs = << >>,
        !.first = IF pipeline.runs = 0 THEN store ELSE @,
        !.second = IF pipeline.runs = 1 THEN store ELSE @]

\* run_full_pipeline, steps 1 to 3: scan_and_detect_changes; without a file
\* change record the run returns True at once.  A later run is started with
\* the directory of the first.  The query of get_stored_checksums succeeds
\* (storeOk) or raises.
run_full_pipeline(directory, storeOk) ==
    /\ pipeline.pc \in {"idle", "returned"}
    /\ pipeline.runs < MaxRuns
    /\ pipeline.runs > 0 => directory = pipeline.directory
    /\ LET current_files == ScanDirectory(workspace, directory)
           stored_checksums == GetStoredChecksums(nodes, storeOk)
           changes == CurrentChanges(workspace, current_files, stored_checksums, {}, {})
                      \cup DeletedChanges(stored_checksums, current_files)
       IN /\ file_changes' = changes
          /\ pipeline' =
                IF changes = {}
                THEN [PipelineReturns([nodes |-> nodes, rels |-> rels])
                         EXCEPT !.directory = directory, !.storeOk = storeOk]
                ELSE [pipeline EXCEPT !.pc = "cleanup_deleted_files",
                                      !.directory = directory,
                                      !.storeOk = storeOk]
    /\ UNCHANGED <<nodes, rels, nonIndexVars>>

\* run_full_pipeline, step 4
cleanup_deleted_files ==
    /\ pipeline.pc = "cleanup_deleted_files"
    /\ LET deleted_files == {fc.path : fc \in {x \in file_changes : x.status = "deleted"}}
           store == CleanupDeletedFiles([nodes |-> nodes, rels |-> rels], deleted_files)
       IN /\ nodes' = store.nodes
          /\ rels' = store.rels
    /\ pipeline' = [pipeline EXCEPT !.pc = "process_files"]
    /\ UNCHANGED <<file_changes, nonIndexVars>>

\* run_full_pipeline, step 5
process_files ==
    /\ pipeline.pc = "process_files"
    /\ pipeline' = [pipeline EXCEPT
                      !.pc = "ingest_to_database",
                      !.chunker_outputs = ProcessFiles(workspace, file_changes)]
    /\ UNCHANGED <<nodes, rels, file_changes, nonIndexVars>>

\* run_full_pipeline, steps 6 and 7: ingest_to_database (nothing without a
\* fragment, else ingest_multiple_outputs), the summary, return True
ingest_to_database ==
    /\ pipeline.pc = "ingest_to_database"
    /\ LET outputs == pipeline.chunker_outputs
           stored == IngestNodesBatch(nodes, AllNodes(outputs), {})
           edges == IngestRelationshipsBatch(stored, rels, AllRelationships(outputs),
                                             pipeline.apoc)
       IN /\ nodes' = stored
          /\ rels' = edges
          /\ pipeline' = PipelineReturns([nodes |-> stored, rels |-> edges])
    /\ UNCHANGED <<file_changes, nonIndexVars>>

\* The index runs start on an empty store (index --init-db on a new
\* database), in a workspace that no one modifies; the database has the APOC
\* procedures or it has not.
PipelineWorkspaces ==
    {ws \in [WsPaths -> Contents \cup {Absent}] :
        /\ ws["s/z.py"] \in {"c2", Absent}
        /\ ws["s/n.txt"] = "c1"
        /\ ws["node_modules/m.js"] = "c1"}

InitPipeline ==
    /\ workspace \in PipelineWorkspaces
    /\ nodes = {}
    /\ rels = << >>
    /\ opCount = 0
    /\ file_changes = {}
    /\ scan = NoScan
    /\ IngestIdle
    /\ DeleteIdle
    /\ SummarizeIdle
    /\ BatchIdle
    /\ pipeline \in {[NoPipeline EXCEPT !.apoc = b] : b \in BOOLEAN}
    /\ SearchIdle

NextPipeline ==
    \/ \E directory \in Directories : run_full_pipeline(directory, TRUE)
    \/ cleanup_deleted_files
    \/ process_files
    \/ ingest_to_database

SpecPipeline == InitPipeline /\ [][NextPipeline]_vars

\* the nodes as a multiset of ids
IdBag(ns) == [i \in {n.id : n \in ns} |-> Cardinality(NodesWithId(ns, i))]

\* the relationships as a multiset of (source id, type, target id)
RelBag(es) ==
    LET T == {<<e.src[2], e.type, e.tgt[2]>> : e \in DOMAIN es}
    IN [t \in T |->
          SumCopies(es, {e \in DOMAIN es : <<e.src[2], e.type, e.tgt[2]>> = t})]

\* C13: after two index runs on an unmodified workspace the store holds the
\* same nodes and the same relationships, as multisets by id, as after the
\* first run.
C13_IdempotentIndex ==
    pipeline.runs = 2 =>
        /\ IdBag(pipeline.second.nodes) = IdBag(pipeline.first.nodes)
        /\ RelBag(pipeline.second.rels) = RelBag(pipeline.first.rels)

\* C14: delete_file_subgraph(p) removes only the File node with path p and
\* the nodes reachable from it along outbound edges; every other node (a node
\* of another file with an edge into the subgraph, the containing Directory)
\* stays in the store with its attributes.
C14_DeleteFrame ==
    [][DeleteRan =>
        LET p == lastDelete'.path
            reachable == OutboundClosure(rels, KeysOf(FileNodes(nodes, p)))
        IN \A n \in nodes : Key(n) \notin reachable => n \in nodes']_vars

\* the detector where reading one scanned file for its checksum may raise
NextDetectFaults ==
    \E dir \in Directories, csErr \in {{}} \cup {{p} : p \in WsPaths} :
        detect_file_changes(dir, csErr, {}, TRUE)

SpecDetectFaults == InitDetect /\ [][NextDetectFaults]_vars

\* C15: a file whose checksum could not be computed is in none of the four
\* classes of the change set and is not handed to the parsers, and every
\* other scanned file is classified as without the failure.
C15_ChecksumFailureExcluded ==
    scan.kind = "done" =>
        LET stored == GetStoredChecksums(nodes, TRUE)
            seen == ScanDirectory(workspace, scan.directory)
        IN /\ \A p \in scan.csErr :
                 /\ StatusesOf(p) = {}
                 /\ p \notin {fc.path : fc \in GetFilesToProcess(file_changes)}
           /\ \A p \in seen \ scan.csErr :
                 StatusesOf(p) =
                     IF p \notin DOMAIN stored THEN {"new"}
                     ELSE IF stored[p] # workspace[p] THEN {"modified"}
                     ELSE {"unchanged"}

\* the level of the node with this id
LevelOfId(id) == type_to_level[(CHOOSE n \in nodes : n.id = id).label]

\* run w is in process_level and takes the step that sets a summary_status or
\* a generated_summary
InProcessLevel(w) ==
    /\ run[w].pc \in {"mark_node_processing", "update_node_summary",
                      "mark_node_completed", "except"}
    /\ run'[w] # run[w]

ClaimedOrWritten(n) == \E m \in nodes' : Key(m) = Key(n) /\ m # n

\* C16: within one run of run_hierarchical_summarization, a node that the
\* run claims or writes never belongs to an earlier level than a node the run
\* has claimed before: the levels are taken strictly in order, also while a
\* second run works on the same store.
C16_LevelsInOrder ==
    [][\A w \in DOMAIN run : \A n \in nodes :
          (InProcessLevel(w) /\ ClaimedOrWritten(n)) =>
              \A id \in run[w].marked : LevelOfId(id) <= type_to_level[n.label]]_vars

\* a run went through the whole pass and claimed nodes of four levels
C16_Witness ==
    \E w \in DOMAIN run :
        /\ run[w].pc = "done"
        /\ Cardinality({LevelOfId(id) : id \in run[w].marked}) = 4

\* run_hierarchical_summarization returns: the step that leaves the last level
HierarchicalReturns(w) ==
    /\ run[w].pc \notin {"idle", "get_nodes_needing_summaries",
                         "process_summaries_batch", "process_summaries_update",
                         "process_embeddings", "done", "failed"}
    /\ run'[w].pc = "get_nodes_needing_summaries"

\* no node of the eight levels lacks a summary while every child that counts
\* as a dependency has one
Quiescent(ns, es) ==
    \A n \in ns :
        (n.label \in Range(level_order) /\ Unsummarized(n))
            => ~CheckDependenciesReady(ns, es, n.id)

\* C17: when run_hierarchical_summarization returns without error the store
\* is quiescent, for every containment graph, also one in which a child
\* belongs to a later level than its parent.
C17_Quiescence ==
    [][\A w \in DOMAIN run : HierarchicalReturns(w) => Quiescent(nodes', rels')]_vars

\* run_hierarchical_summarization alone: every store query succeeds and the
\* LLM answers each request with a text, an empty text or an error
Hierarchical(w) ==
    \/ run_hierarchical_summarization(w)
    \/ get_nodes_by_level(w, FALSE)
    \/ check_dependencies_ready(w, FALSE)
    \/ mark_node_processing(w, FALSE)
    \/ enrich_node_with_context(w, FALSE)
    \/ generate_summaries_batch(w, LLMOutcomes)
    \/ update_node_summary(w, FALSE)
    \/ mark_node_completed(w, FALSE)

NextHierarchical == Hierarchical("r1")

\* the event loop resumes the run whenever the call it awaits has answered
SpecHierarchicalLive ==
    InitSummarize /\ [][NextHierarchical]_vars /\ WF_vars(NextHierarchical)

\* C18: for every finite graph and whatever the LLM returns for each request,
\* process_level stops after finitely many batches and
\* run_hierarchical_summarization eventually returns.
C18_Terminates ==
    <>(run["r1"].pc = "get_nodes_needing_summaries")

(***************************************************************************)
(* reset: HierarchicalSummarizationOrchestrator.reset_processing_status    *)
(***************************************************************************)
ResetProcessingStatusAll(ns) ==
    {[n EXCEPT !.summary_status = Null] : n \in ns}

\* MATCH (n) WHERE n.summary_status = 'PROCESSING' REMOVE n.summary_status
ResetProcessingStatus(ns) ==
    {IF n.summary_status = "PROCESSING" THEN [n EXCEPT !.summary_status = Null]
     ELSE n : n \in ns}

\* reset_command: orchestrator.reset_processing_status()
reset_processing_status ==
    /\ opCount < MaxOps
    /\ opCount' = opCount + 1
    /\ nodes' = ResetProcessingStatus(nodes)
    /\ UNCHANGED <<rels, ingestVars, lastDelete, detectVars, summarizeVars,
                   batchVars, indexVars, searchVars>>

\* the reset command is given at any time, also while a summarization runs
NextReset == Summarize("r1") \/ reset_processing_status

SpecReset == InitSummarize /\ [][NextReset]_vars

ResetRan == opCount' = opCount + 1

Processing(n) == n.summary_status = "PROCESSING"

\* C19: reset_processing_status removes summary_status from exactly the
\* nodes whose status is PROCESSING: afterwards no node is processing, every
\* other node (completed markers, generated_summary, embedding, all other
\* attributes) and every edge is as before, and a call on a store without a
\* processing node changes nothing.
C19_ResetFrame ==
    [][ResetRan =>
        /\ \A n \in nodes' : ~Processing(n)
        /\ \A n \in nodes :
              IF Processing(n)
              THEN [n EXCEPT !.summary_status = Null] \in nodes'
              ELSE n \in nodes'
        /\ Cardinality(nodes') = Cardinality(nodes)
        /\ rels' = rels
        /\ (\A n \in nodes : ~Processing(n)) => nodes' = nodes]_vars

\* a reset took the marker of a node that the run holds in its batch, in a
\* store that has a completed node with a summary
C19_Witness ==
    /\ opCount > 0
    /\ run["r1"].pc = "generate_summaries_batch"
    /\ \E j \in DOMAIN run["r1"].ready_nodes :
          \A n \in NodesWithId(nodes, run["r1"].ready_nodes[j].id) :
              n.summary_status = Null
    /\ \E n \in nodes : n.summary_status = "COMPLETED" /\ ~Unsummarized(n)

(***************************************************************************)
(* chunker_orchestrator.py: when the caller receives a file's fragment     *)
(***************************************************************************)

\* C21: the fragment of a file whose parser has finished is available to the
\* caller of process_files_batch while other files of the batch are still
\* being parsed.
C21_GatheredAsCompleted ==
    gather.kind = "parse" =>
        \A i \in DOMAIN tasks, j \in DOMAIN tasks :
            (/\ tasks[i].pc = "done" /\ tasks[i].result.kind = "output"
             /\ tasks[j].process = "running")
                => FragmentsOf(tasks[i]) # {}

(***************************************************************************)
(* graph_ingestion.py: nodes before relationships, dangling relationships  *)
(***************************************************************************)
IngestRan == opCount' = opCount + 1

\* C22: within one ingest call the nodes are upserted before the
\* relationships, so a relationship between nodes of the same call finds them
\* and gets its edge; a relationship whose source_id or target_id matches no
\* stored node leaves no edge, no edge of the store ends at a node that is not
\* stored, and the call stores no node but those of its node list.
C22_NodesBeforeRelationships ==
    [][IngestRan =>
        /\ \A i \in DOMAIN lastRels' :
              LET r == lastRels'[i] IN
              IF /\ NodesWithId(nodes', r.source_id) # {}
                 /\ NodesWithId(nodes', r.target_id) # {}
              THEN EdgesOf(rels', r) # {}
              ELSE EdgesOf(rels', r) = {}
        /\ \A e \in DOMAIN rels' : {e.src, e.tgt} \subseteq KeysOf(nodes')
        /\ lastMatched' = AllMatched(nodes', lastRels')]_vars

\* the first call into an empty store upserted a node and carried two
\* relationships from it to a node that is not stored: no edge, no second node
C22_Witness ==
    /\ opCount = 1
    /\ Len(lastRels) = 2
    /\ ~lastMatched
    /\ \E n \in nodes : nodes = {n} /\ \A i \in DOMAIN lastRels : lastRels[i].source_id = n.id
    /\ rels = << >>

(***************************************************************************)
(* main_pipeline.py: the index run when the store cannot be queried        *)
(***************************************************************************)
\* the index runs where the checksum query of a run may raise
NextPipelineFaults ==
    \/ \E directory \in Directories, storeOk \in BOOLEAN :
          run_full_pipeline(directory, storeOk)
    \/ cleanup_deleted_files
    \/ process_files
    \/ ingest_to_database

SpecPipelineFaults == InitPipeline /\ [][NextPipelineFaults]_vars

\* C23: an index run whose query for the stored checksums failed goes no
\* further: it does not clean up, parse or ingest, and it does not return
\* True (which the command turns into exit code 0).
C23_StoreFailureAborts ==
    (pipeline.pc # "idle" /\ ~pipeline.storeOk) =>
        pipeline.pc \notin {"cleanup_deleted_files", "process_files",
                            "ingest_to_database", "returned"}

(***************************************************************************)
(* hybrid_search.py: strings.  A string is a sequence of characters; the   *)
(* explored queries and names are written over the characters below.       *)
(***************************************************************************)
\* the characters in code point order: " " < A-Z < "_" < a-z
CodePoints ==
    <<" ", "D", "L", "P", "U", "_", "a", "b", "c", "e", "g", "i", "l", "o",
      "p", "s", "t", "u", "y">>

UpperCase == {"D", "L", "P", "U"}

LowerCase == {"a", "b", "c", "e", "g", "i", "l", "o", "p", "s", "t", "u", "y"}

\* \w of the regular expressions
WordChars == UpperCase \cup LowerCase \cup {"_"}

CodePoint(c) == CHOOSE i \in DOMAIN CodePoints : CodePoints[i] = c

\* str.lower()
LowerChar(c) ==
    CASE c = "D" -> "d" [] c = "L" -> "l" [] c = "P" -> "p" [] c = "U" -> "u"
      [] OTHER -> c

StrLower(s) == [i \in DOMAIN s |-> LowerChar(s[i])]

\* a in b (Python), b CONTAINS a (Cypher)
Contains(b, a) ==
    \E k \in 0..(Len(b) - Len(a)) : \A i \in DOMAIN a : b[k + i] = a[i]

EndsWith(s, suffix) ==
    /\ Len(s) >= Len(suffix)
    /\ \A i \in DOMAIN suffix : s[Len(s) - Len(suffix) + i] = suffix[i]

\* the order of ORDER BY on strings: code point by code point
RECURSIVE StrLess(_, _)
StrLess(a, b) ==
    IF b = << >> THEN FALSE
    ELSE IF a = << >> THEN TRUE
    ELSE IF Head(a) = Head(b) THEN StrLess(Tail(a), Tail(b))
    ELSE CodePoint(Head(a)) < CodePoint(Head(b))

\* " ".join(words)
RECURSIVE Join(_)
Join(words) ==
    IF words = << >> THEN << >>
    ELSE IF Len(words) = 1 THEN words[1]
    ELSE words[1] \o <<" ">> \o Join(Tail(words))

(***************************************************************************)
(* hybrid_search.py: QueryParser.  A query is a list of words separated by *)
(* single spaces.                                                          *)
(***************************************************************************)
\* the words of the explored queries, and the names of the explored nodes
Vocabulary ==
    {<<"P", "a", "y">>, <<"p", "a", "y">>, <<"p", "a", "y", "_", "u", "p">>,
     <<"D", "b">>, <<"L", "o", "g">>, <<"l", "o", "g">>,
     <<"P", "a", "y", "U", "t", "i", "l">>, <<"u", "s", "e", "s">>,
     <<"c", "l", "a", "s", "s">>}

\* QueryParser.programming_terms: of its terms, those a word of the
\* vocabulary can be equal to
programming_terms == {<<"l", "o", "g">>, <<"c", "l", "a", "s", "s">>}

\* QueryParser.node_type_mapping: of its keys, the one a word of the
\* vocabulary can be equal to
node_type_mapping == (<<"c", "l", "a", "s", "s">> :> <<"Class">>)

\* QueryParser.entity_patterns: first character, characters that may follow,
\* and the endings (of the endings in the source those written over the
\* characters above; the last pattern has none)
entity_patterns ==
    <<[first |-> UpperCase, body |-> UpperCase \cup LowerCase,
       endings |-> {<<"U", "t", "i", "l">>, <<"U", "t", "i", "l", "s">>}],
      [first |-> UpperCase, body |-> UpperCase \cup LowerCase, endings |-> {}],
      [first |-> UpperCase, body |-> UpperCase \cup LowerCase, endings |-> {}],
      [first |-> LowerCase, body |-> UpperCase \cup LowerCase, endings |-> {}],
      [first |-> UpperCase, body |-> WordChars, endings |-> {<< >>}]>>

\* a word is a match of the pattern: between two \b the pattern covers a
\* whole word, as every character of a word is a \w
Matches(word, pattern) ==
    /\ word # << >>
    /\ word[1] \in pattern.first
    /\ \E ending \in pattern.endings :
          /\ EndsWith(word, ending)
          /\ Len(word) >= 1 + Len(ending)
          /\ \A i \in 2..(Len(word) - Len(ending)) : word[i] \in pattern.body

\* re.findall(pattern, query)
FindAll(pattern, words) == SelectSeq(words, LAMBDA w : Matches(w, pattern))

\* parse_query: entity_names.extend(matches) for every pattern
RECURSIVE EntityNames(_, _)
EntityNames(patterns, words) ==
    IF patterns = << >> THEN << >>
    ELSE FindAll(Head(patterns), words) \o EntityNames(Tail(patterns), words)

\* parse_query: the words whose lower case is a programming term
ProgrammingTerms(words) ==
    LET lower == [i \in DOMAIN words |-> StrLower(words[i])]
    IN SelectSeq(lower, LAMBDA w : w \in programming_terms)

\* the elements of a set as a list, in one of the orders list(set) can give
RECURSIVE ListOfSet(_)
ListOfSet(S) ==
    IF S = {} THEN << >>
    ELSE LET x == CHOOSE y \in S : TRUE IN <<x>> \o ListOfSet(S \ {x})

\* parse_query: node_types, returned as list(set(node_types)); the engine
\* only asks whether a label is in the list
NodeTypes(words) ==
    ListOfSet(UNION {Range(node_type_mapping[StrLower(words[i])]) :
                        i \in {k \in DOMAIN words :
                                  StrLower(words[k]) \in DOMAIN node_type_mapping}})

\* parse_query: re.sub(r'[^\w]', '', word.lower()) leaves a word of the
\* vocabulary as it is
SemanticTerms(words) ==
    LET lower == [i \in DOMAIN words |-> StrLower(words[i])]
    IN SelectSeq(lower, LAMBDA w : /\ w \notin programming_terms
                                   /\ w \notin DOMAIN node_type_mapping
                                   /\ Len(w) > 2)

\* QueryParser._determine_query_type; the confidence in tenths
DetermineQueryType(entity_names, programming, semantic_terms) ==
    LET has_entities == Len(entity_names) > 0
        has_programming == Len(programming) > 0
        has_semantic == Len(semantic_terms) > 0
    IN IF has_entities /\ has_semantic THEN <<"hybrid", 8>>
       ELSE IF has_entities /\ has_programming THEN <<"hybrid", 7>>
       ELSE IF has_entities THEN <<"entity", 9>>
       ELSE IF has_programming /\ has_semantic THEN <<"contextual", 7>>
       ELSE IF has_semantic THEN <<"semantic", 6>>
       ELSE <<"semantic", 4>>

\* QueryParser._should_expand_context: of the indicators, the one that can
\* occur in a query over the vocabulary
context_indicators == {<<"u", "s", "e", "s">>}

ShouldExpandContext(query) ==
    \E indicator \in context_indicators : Contains(query, indicator)

\* QueryParser.parse_query
ParseQuery(words) ==
    LET entity_names == EntityNames(entity_patterns, words)
        programming == ProgrammingTerms(words)
        semantic_terms == SemanticTerms(words)
        type == DetermineQueryType(entity_names, programming, semantic_terms)
    IN [query_type |-> type[1], semantic_terms |-> semantic_terms,
        entity_names |-> entity_names, node_types |-> NodeTypes(words),
        keywords |-> programming, programming_terms |-> programming,
        expand_context |-> ShouldExpandContext(StrLower(Join(words))),
        confidence |-> type[2]]

(***************************************************************************)
(* graph_traversal.py: GraphTraversalEngine                                *)
(***************************************************************************)
TraversalRule(from_node_type, relationship_type, to_node_type, direction) ==
    [from_node_type |-> from_node_type, relationship_type |-> relationship_type,
     to_node_type |-> to_node_type, direction |-> direction, max_depth |-> 1]

\* GraphTraversalEngine._init_traversal_rules
traversal_rules ==
    [l \in {"File", "Class", "Interface", "Method", "Function", "Variable",
            "Parameter"} |->
        CASE l = "File" ->
               <<TraversalRule("File", "CONTAINS", "Class", "outgoing"),
                 TraversalRule("File", "CONTAINS", "Function", "outgoing"),
                 TraversalRule("File", "CONTAINS", "Interface", "outgoing"),
                 TraversalRule("File", "IMPORTS", Null, "outgoing"),
                 TraversalRule("File", "IMPORTS", Null, "incoming")>>
          [] l = "Class" ->
               <<TraversalRule("Class", "CONTAINS", Null, "incoming"),
                 TraversalRule("Class", "DEFINES", "Method", "outgoing"),
                 TraversalRule("Class", "DEFINES", "Variable", "outgoing"),
                 TraversalRule("Class", "EXTENDS", "Class", "outgoing"),
                 TraversalRule("Class", "IMPLEMENTS", "Interface", "outgoing"),
                 TraversalRule("Class", "EXTENDS", Null, "incoming"),
                 TraversalRule("Class", "IMPLEMENTS", Null, "incoming"),
                 TraversalRule("Class", "INSTANTIATES", Null, "incoming")>>
          [] l = "Interface" ->
               <<TraversalRule("Interface", "CONTAINS", Null, "incoming"),
                 TraversalRule("Interface", "DEFINES", "Method", "outgoing"),
                 TraversalRule("Interface", "EXTENDS", "Interface", "outgoing"),
                 TraversalRule("Interface", "IMPLEMENTS", Null, "incoming"),
                 TraversalRule("Interface", "EXTENDS", Null, "incoming")>>
          [] l = "Method" ->
               <<TraversalRule("Method", "DEFINES", Null, "incoming"),
                 TraversalRule("Method", "DECLARES", "Parameter", "outgoing"),
                 TraversalRule("Method", "DECLARES", "Variable", "outgoing"),
                 TraversalRule("Method", "CALLS", "Method", "outgoing"),
                 TraversalRule("Method", "CALLS", "Function", "outgoing"),
                 TraversalRule("Method", "INSTANTIATES", "Class", "outgoing"),
                 TraversalRule("Method", "CALLS", Null, "incoming")>>
          [] l = "Function" ->
               <<TraversalRule("Function", "CONTAINS", Null, "incoming"),
                 TraversalRule("Function", "DECLARES", "Parameter", "outgoing"),
                 TraversalRule("Function", "DECLARES", "Variable", "outgoing"),
                 TraversalRule("Function", "CALLS", "Function", "outgoing"),
                 TraversalRule("Function", "CALLS", "Method", "outgoing"),
                 TraversalRule("Function", "INSTANTIATES", "Class", "outgoing"),
                 TraversalRule("Function", "CALLS", Null, "incoming")>>
          [] l = "Variable" ->
               <<TraversalRule("Variable", "DECLARES", Null, "incoming"),
                 TraversalRule("Variable", "SCOPES", Null, "both")>>
          [] l = "Parameter" ->
               <<TraversalRule("Parameter", "DECLARES", Null, "incoming"),
                 TraversalRule("Parameter", "SCOPES", Null, "both")>>]

\* GraphTraversalEngine._get_direction_clause
GetDirectionClause(rule) ==
    CASE rule.direction = "outgoing" -> ""
      [] rule.direction = "incoming" -> "<"
      [] OTHER -> ""

\* ORDER BY <name>: the nodes of S by name (the explored stores give every
\* node another name)
OrderByName(S) ==
    [i \in 1..Cardinality(S) |->
        CHOOSE n \in S : Cardinality({y \in S : StrLess(y.name, n.name)}) = i - 1]

Limit(rows, n) == SubSeq(rows, 1, IF n < Len(rows) THEN n ELSE Len(rows))

\* the rows of the query of _apply_traversal_rule.  The pattern is
\* (start)-<clause>[r:<type>]->(related<:label>): with the clause "<" of an
\* incoming rule this is no Cypher pattern and the query raises; with the
\* empty clause it is the outgoing pattern.  RETURN ... length(r) takes the
\* length of a single relationship: a store that rejects it (accepted =
\* FALSE) raises for every rule.  related.id <> $start_id; ORDER BY depth,
\* related.name; LIMIT $limit.
TraversalRows(ns, es, start_id, rule, limit, accepted) ==
    IF GetDirectionClause(rule) = "<" \/ ~accepted THEN [raised |-> TRUE, rows |-> << >>]
    ELSE LET related ==
                 {n \in ns :
                     /\ n.id # start_id
                     /\ rule.to_node_type # Null => n.label = rule.to_node_type
                     /\ \E e \in DOMAIN es :
                           /\ e.type = rule.relationship_type
                           /\ e.src[2] = start_id
                           /\ e.tgt = Key(n)}
         IN [raised |-> FALSE, rows |-> Limit(OrderByName(related), limit)]

RelatedNode(n, rule) ==
    [node_id |-> n.id, name |-> n.name, node_type |-> n.label,
     relationship_path |-> <<rule.relationship_type>>]

\* _apply_traversal_rule, the loop over the records: a record whose id is in
\* processed_ids is skipped, the others are appended and their ids added.
\* The except branch logs and the nodes collected so far are returned.
RECURSIVE CollectRows(_, _, _, _)
CollectRows(rows, rule, collected, processed_ids) ==
    IF rows = << >> THEN [nodes |-> collected, processed_ids |-> processed_ids]
    ELSE IF Head(rows).id \in processed_ids
         THEN CollectRows(Tail(rows), rule, collected, processed_ids)
         ELSE CollectRows(Tail(rows), rule,
                          Append(collected, RelatedNode(Head(rows), rule)),
                          processed_ids \cup {Head(rows).id})

ApplyTraversalRule(ns, es, start_id, rule, max_nodes, processed_ids, accepted) ==
    CollectRows(TraversalRows(ns, es, start_id, rule, max_nodes, accepted).rows,
                rule, << >>, processed_ids)

\* _traverse_from_node: the rules of the node type in their order, until
\* max_nodes nodes are collected
RECURSIVE TraverseRules(_, _, _, _, _, _, _, _)
TraverseRules(ns, es, node_id, rules, max_nodes, related_nodes, processed_ids,
              accepted) ==
    IF rules = << >> \/ Len(related_nodes) >= max_nodes
    THEN [nodes |-> related_nodes, processed_ids |-> processed_ids]
    ELSE LET got == ApplyTraversalRule(ns, es, node_id, Head(rules),
                                       max_nodes - Len(related_nodes),
                                       processed_ids, accepted)
         IN TraverseRules(ns, es, node_id, Tail(rules), max_nodes,
                          related_nodes \o got.nodes, got.processed_ids, accepted)

TraverseFromNode(ns, es, node_id, node_type, max_nodes, processed_ids, accepted) ==
    IF node_type \notin DOMAIN traversal_rules
    THEN [nodes |-> << >>, processed_ids |-> processed_ids]
    ELSE TraverseRules(ns, es, node_id, traversal_rules[node_type], max_nodes,
                       << >>, processed_ids, accepted)

\* expand_context, the loop over the search results: a result whose id is in
\* processed_node_ids is passed over; the loop ends when max_related_nodes
\* nodes are collected
RECURSIVE ExpandFrom(_, _, _, _, _, _, _)
ExpandFrom(ns, es, search_results, max_related_nodes, all_related_nodes,
           processed_node_ids, accepted) ==
    IF search_results = << >> THEN all_related_nodes
    ELSE LET result == Head(search_results) IN
         IF result.node_id \in processed_node_ids
         THEN ExpandFrom(ns, es, Tail(search_results), max_related_nodes,
                         all_related_nodes, processed_node_ids, accepted)
         ELSE LET got == TraverseFromNode(
                             ns, es, result.node_id, result.node_type,
                             max_related_nodes - Len(all_related_nodes),
                             processed_node_ids, accepted)
                  all == all_related_nodes \o got.nodes
              IN IF Len(all) >= max_related_nodes THEN all
                 ELSE ExpandFrom(ns, es, Tail(search_results), max_related_nodes,
                                 all, got.processed_ids \cup {result.node_id},
                                 accepted)

\* GraphTraversalEngine.expand_context
ExpandContext(ns, es, search_results, max_related_nodes, accepted) ==
    IF search_results = << >>
    THEN [central_nodes |-> << >>, related_nodes |-> << >>]
    ELSE [central_nodes |-> search_results,
          related_nodes |->
              Limit(ExpandFrom(ns, es, search_results, max_related_nodes, << >>,
                               {}, accepted),
                    max_related_nodes)]

(***************************************************************************)
(* hybrid_search.py: HybridSearchEngine.  A score is a whole number of     *)
(* millionths, so that every product below is exact.                       *)
(***************************************************************************)
Hundredths(k) == k * 10000

\* x * 1.3 and the like: the factor in tenths
Times(x, tenths) == (x * tenths) \div 10

\* HybridSearchConfig and the literals of the engine
max_vector_results == 20
max_entity_results == 10
DefaultMaxTotalResults == 30
DefaultMaxContextNodes == 50
boost_exact_matches == 15       \* 1.5
boost_entity_matches == 13      \* 1.3
TopResults == 10                \* results[:10]

NoCallHierarchy == [present |-> FALSE, callers |-> 0, callees |-> 0]

NoInheritance == [present |-> FALSE, ancestors |-> 0, descendants |-> 0]

\* no context, and a context as expand_context returns it: traversal_summary
\* without the keys call_hierarchy and inheritance
NoContext ==
    [present |-> FALSE, related_nodes |-> << >>,
     call_hierarchy |-> NoCallHierarchy, inheritance |-> NoInheritance]

SearchResult(n, similarity_score) ==
    [node_id |-> n.id, name |-> n.name, node_type |-> n.label,
     similarity_score |-> similarity_score]

\* a match_type "a+b" is the list <<a, b>>
HybridSearchResult(search_result, match_type, hybrid_score) ==
    [search_result |-> search_result, match_type |-> <<match_type>>,
     hybrid_score |-> hybrid_score, context |-> NoContext]

\* _semantic_search: the results of the vector engine in their order
SemanticSearch(vector_results) ==
    [i \in DOMAIN vector_results |->
        HybridSearchResult(vector_results[i], "vector",
                           vector_results[i].similarity_score)]

\* _search_by_name: n.name CONTAINS $name (the explored nodes carry no
\* full_name); match_score 1.0 for an equal name, 0.8 otherwise;
\* ORDER BY match_score DESC, n.name LIMIT $limit
SearchByName(ns, name, limit) ==
    LET equal == {n \in ns : n.name = name}
        partial == {n \in ns : n.name # name /\ Contains(n.name, name)}
        Row(rows, score) == [i \in DOMAIN rows |-> SearchResult(rows[i], score)]
    IN Limit(Row(OrderByName(equal), Hundredths(100))
                 \o Row(OrderByName(partial), Hundredths(80)),
             limit)

\* _entity_search: one lookup per entry of entity_names
RECURSIVE EntitySearch(_, _)
EntitySearch(ns, entity_names) ==
    IF entity_names = << >> THEN << >>
    ELSE LET results == SearchByName(ns, Head(entity_names), max_entity_results)
         IN [i \in DOMAIN results |->
                HybridSearchResult(
                    results[i], "entity",
                    Times(results[i].similarity_score, boost_entity_matches))]
            \o EntitySearch(ns, Tail(entity_names))

\* the nodes within 1..max_depth CALLS edges of S, forward or backward.  A
\* path of the pattern [:CALLS*1..d] uses no edge twice; a node that a walk of
\* at most d edges reaches is reached by such a path as well.
RECURSIVE CallsWithin(_, _, _, _)
CallsWithin(es, S, max_depth, forward) ==
    IF max_depth = 0 THEN {}
    ELSE LET next == {IF forward THEN e.tgt ELSE e.src :
                         e \in {x \in DOMAIN es :
                                   /\ x.type = "CALLS"
                                   /\ (IF forward THEN x.src ELSE x.tgt) \in S}}
         IN next \cup CallsWithin(es, next, max_depth - 1, forward)

CallHierarchyLimit == 20

HierarchyRows(ns, es, method_id, max_depth, forward) ==
    LET start == KeysOf(NodesWithId(ns, method_id))
        found == {n \in ns : /\ Key(n) \in CallsWithin(es, start, max_depth, forward)
                             /\ n.id # method_id}
        rows == Limit(OrderByName(found), CallHierarchyLimit)
    IN [i \in DOMAIN rows |->
          [node_id |-> rows[i].id, name |-> rows[i].name, node_type |-> rows[i].label]]

\* GraphTraversalEngine._get_callers
GetCallers(ns, es, method_id, max_depth) ==
    HierarchyRows(ns, es, method_id, max_depth, FALSE)

\* GraphTraversalEngine._get_callees
GetCallees(ns, es, method_id, max_depth) ==
    HierarchyRows(ns, es, method_id, max_depth, TRUE)

InheritanceDepth == 5           \* [:EXTENDS|IMPLEMENTS*1..5]
HierarchyDepth == 2             \* max_depth of _add_hierarchical_context

\* the nodes within 1..max_depth EXTENDS or IMPLEMENTS edges of S, towards
\* the parents (forward) or towards the children
RECURSIVE InheritanceWithin(_, _, _, _)
InheritanceWithin(es, S, max_depth, forward) ==
    IF max_depth = 0 THEN {}
    ELSE LET next == {IF forward THEN e.tgt ELSE e.src :
                         e \in {x \in DOMAIN es :
                                   /\ x.type \in {"EXTENDS", "IMPLEMENTS"}
                                   /\ (IF forward THEN x.src ELSE x.tgt) \in S}}
         IN next \cup InheritanceWithin(es, next, max_depth - 1, forward)

InheritanceRows(ns, es, class_id, forward) ==
    OrderByName({n \in ns :
                    /\ Key(n) \in InheritanceWithin(es, KeysOf(NodesWithId(ns, class_id)),
                                                    InheritanceDepth, forward)
                    /\ n.id # class_id})

\* GraphTraversalEngine._get_ancestors
GetAncestors(ns, es, class_id) == InheritanceRows(ns, es, class_id, TRUE)

\* GraphTraversalEngine._get_descendants
GetDescendants(ns, es, class_id) == InheritanceRows(ns, es, class_id, FALSE)

\* get_call_hierarchy(node_id, direction=BOTH, max_depth=2) and
\* get_inheritance_hierarchy(node_id), as _add_hierarchical_context counts
\* them
CallHierarchySummary(ns, es, node_id) ==
    [present |-> TRUE,
     callers |-> Len(GetCallers(ns, es, node_id, HierarchyDepth)),
     callees |-> Len(GetCallees(ns, es, node_id, HierarchyDepth))]

InheritanceSummary(ns, es, node_id) ==
    [present |-> TRUE,
     ancestors |-> Len(GetAncestors(ns, es, node_id)),
     descendants |-> Len(GetDescendants(ns, es, node_id))]

\* HybridSearchEngine._add_hierarchical_context: the counts of the result's
\* node are written into the traversal_summary of the result's context
AddHierarchicalContext(ns, es, context, result, config) ==
    CHOOSE c \in
        {LET with_calls ==
                 IF config.expand_call_hierarchy /\ r.node_type \in {"Method", "Function"}
                 THEN [context EXCEPT
                         !.call_hierarchy = CallHierarchySummary(ns, es, r.node_id)]
                 ELSE context
         IN IF config.expand_inheritance /\ r.node_type \in {"Class", "Interface"}
            THEN [with_calls EXCEPT
                    !.inheritance = InheritanceSummary(ns, es, r.node_id)]
            ELSE with_calls :
           r \in {result.search_result}} : TRUE

\* _expand_context: for hybrid_result in top_results:
\* await self._add_hierarchical_context(hybrid_result, config), every
\* hybrid_result.context being the one context object
RECURSIVE AddHierarchicalContexts(_, _, _, _, _)
AddHierarchicalContexts(ns, es, context, top_results, config) ==
    IF top_results = << >> THEN context
    ELSE AddHierarchicalContexts(
             ns, es, AddHierarchicalContext(ns, es, context, Head(top_results), config),
             Tail(top_results), config)

\* HybridSearchEngine._expand_context: one context for the first ten results
ExpandResults(ns, es, results, config, accepted) ==
    IF ~config.enable_context_expansion \/ results = << >> THEN results
    ELSE LET top_results == Limit(results, TopResults)
             expanded == ExpandContext(
                            ns, es,
                            [i \in DOMAIN top_results |-> top_results[i].search_result],
                            config.max_context_nodes, accepted)
             shared == [NoContext EXCEPT !.present = TRUE,
                                         !.related_nodes = expanded.related_nodes]
             context == IF config.expand_call_hierarchy \/ config.expand_inheritance
                        THEN AddHierarchicalContexts(ns, es, shared, top_results, config)
                        ELSE shared
         IN [i \in DOMAIN results |->
                IF i <= TopResults
                THEN [results[i] EXCEPT !.context = context]
                ELSE results[i]]

\* a merge that keeps the first result of a node as it arrived
RECURSIVE MergeResultsKeepFirst(_, _)
MergeResultsKeepFirst(all_results, unique_results) ==
    IF all_results = << >> THEN unique_results
    ELSE LET result == Head(all_results)
             seen == {i \in DOMAIN unique_results :
                        unique_results[i].search_result.node_id
                            = result.search_result.node_id}
         IN IF seen = {}
            THEN MergeResultsKeepFirst(Tail(all_results),
                                       Append(unique_results, result))
            ELSE MergeResultsKeepFirst(Tail(all_results), unique_results)

\* _merge_and_score_results, the first loop: a result whose node_id was seen
\* raises the score of the first result with that id and extends its
\* match_type
RECURSIVE MergeResults(_, _)
MergeResults(all_results, unique_results) ==
    IF all_results = << >> THEN unique_results
    ELSE LET result == Head(all_results)
             seen == {i \in DOMAIN unique_results :
                        unique_results[i].search_result.node_id
                            = result.search_result.node_id}
         IN IF seen = {}
            THEN MergeResults(Tail(all_results), Append(unique_results, result))
            ELSE LET i == CHOOSE k \in seen : \A j \in seen : k <= j
                     existing == unique_results[i]
                 IN MergeResults(
                        Tail(all_results),
                        [unique_results EXCEPT
                            ![i] = [existing EXCEPT
                                      !.hybrid_score =
                                          IF result.hybrid_score > @
                                          THEN result.hybrid_score ELSE @,
                                      !.match_type = @ \o result.match_type]])

\* HybridSearchEngine._is_exact_match
IsExactMatch(search_result, intent) ==
    LET name_lower == StrLower(search_result.name) IN
    \/ \E i \in DOMAIN intent.entity_names :
          StrLower(intent.entity_names[i]) = name_lower
    \/ \E i \in DOMAIN intent.keywords : Contains(name_lower, intent.keywords[i])

\* the score without the cap at 2.0
CalculateHybridScoreUncapped(result, intent) ==
    LET s1 == IF IsExactMatch(result.search_result, intent)
              THEN Times(result.hybrid_score, boost_exact_matches)
              ELSE result.hybrid_score
        s2 == Times(s1, intent.confidence)
        s3 == IF /\ intent.node_types # << >>
                 /\ result.search_result.node_type \in Range(intent.node_types)
              THEN Times(s2, 12) ELSE s2
        s4 == IF Len(result.match_type) > 1 THEN Times(s3, 11) ELSE s3
        related == Len(result.context.related_nodes)
    IN IF result.context.present /\ related > 0
       THEN s4 + (IF related * 2000 < Hundredths(10) THEN related * 2000
                  ELSE Hundredths(10))
       ELSE s4

\* HybridSearchEngine._calculate_hybrid_score
CalculateHybridScore(result, intent) ==
    LET s1 == IF IsExactMatch(result.search_result, intent)
              THEN Times(result.hybrid_score, boost_exact_matches)
              ELSE result.hybrid_score
        s2 == Times(s1, intent.confidence)
        s3 == IF /\ intent.node_types # << >>
                 /\ result.search_result.node_type \in Range(intent.node_types)
              THEN Times(s2, 12) ELSE s2
        s4 == IF Len(result.match_type) > 1 THEN Times(s3, 11) ELSE s3
        related == Len(result.context.related_nodes)
        s5 == IF result.context.present /\ related > 0
              THEN s4 + (IF related * 2000 < Hundredths(10) THEN related * 2000
                         ELSE Hundredths(10))
              ELSE s4
    IN IF s5 < Hundredths(200) THEN s5 ELSE Hundredths(200)

MergeAndScoreResults(all_results, intent) ==
    LET unique_results == MergeResults(all_results, << >>)
    IN [i \in DOMAIN unique_results |->
          [unique_results[i] EXCEPT
              !.hybrid_score = CalculateHybridScore(unique_results[i], intent)]]

\* a sort by falling hybrid_score that puts the last of equal scores first
RECURSIVE SortByScoreUnstable(_)
SortByScoreUnstable(results) ==
    IF results = << >> THEN << >>
    ELSE LET i == CHOOSE k \in DOMAIN results :
                    /\ \A j \in DOMAIN results :
                          results[j].hybrid_score <= results[k].hybrid_score
                    /\ \A j \in DOMAIN results :
                          results[j].hybrid_score = results[k].hybrid_score => j <= k
             rest == [j \in 1..(Len(results) - 1) |->
                         IF j < i THEN results[j] ELSE results[j + 1]]
         IN <<results[i]>> \o SortByScoreUnstable(rest)

\* list.sort(key = hybrid_score, reverse = True): by falling hybrid_score,
\* equal scores in the order of the list (the sort is stable)
RECURSIVE SortByScore(_)
SortByScore(results) ==
    IF results = << >> THEN << >>
    ELSE LET i == CHOOSE k \in DOMAIN results :
                    /\ \A j \in DOMAIN results :
                          results[j].hybrid_score <= results[k].hybrid_score
                    /\ \A j \in DOMAIN results :
                          results[j].hybrid_score = results[k].hybrid_score => k <= j
             rest == [j \in 1..(Len(results) - 1) |->
                         IF j < i THEN results[j] ELSE results[j + 1]]
         IN <<results[i]>> \o SortByScore(rest)

\* HybridSearchEngine.search: the merged list and the returned list
Search(ns, es, query, config, vector_results, accepted) ==
    LET intent == ParseQuery(query)
        semantic == IF intent.query_type \in {"semantic", "hybrid", "contextual"}
                    THEN SemanticSearch(vector_results) ELSE << >>
        entity == IF intent.query_type \in {"entity", "hybrid"}
                  THEN EntitySearch(ns, intent.entity_names) ELSE << >>
        all_results == semantic \o entity
        expanded == IF intent.query_type = "contextual" \/ intent.expand_context
                    THEN ExpandResults(ns, es, all_results, config, accepted)
                    ELSE all_results
        final_results == MergeAndScoreResults(expanded, intent)
    IN [intent |-> intent, all_results |-> expanded,
        unique_results |-> MergeResults(expanded, << >>),
        merged |-> final_results,
        results |-> Limit(SortByScore(final_results), config.max_total_results)]

(***************************************************************************)
(* The explored stores of the search: enriched nodes with names in Pascal  *)
(* case, lower case and snake case, and any subset of three CALLS edges    *)
(* between the methods and the function (so: chains, a cycle of two).      *)
(***************************************************************************)
MaxVectorHits == 2      \* results of the vector engine per search
MaxSeeds == 2           \* search results handed to expand_context
MaxDepth == 2           \* max_depth of get_call_hierarchy

NamedNode(label, id, name) ==
    [StoredNode(label, id, Null) EXCEPT !.name = name,
                                        !.generated_summary = "text",
                                        !.embedding = "vector"]

SearchNodes ==
    {NamedNode("Class", "c1", <<"P", "a", "y">>),
     NamedNode("Class", "c2", <<"P", "a", "y", "U", "t", "i", "l">>),
     NamedNode("Class", "c3", <<"D", "b">>),
     NamedNode("Method", "m1", <<"p", "a", "y">>),
     NamedNode("Method", "m2", <<"p", "a", "y", "_", "u", "p">>),
     NamedNode("Function", "g1", <<"l", "o", "g">>)}

SearchEdges ==
    {GraphEdge("Method", "m1", "CALLS", "Method", "m2"),
     GraphEdge("Method", "m2", "CALLS", "Method", "m1"),
     GraphEdge("Method", "m2", "CALLS", "Function", "g1")}

DefinesEdges == {GraphEdge("Class", "c1", "DEFINES", "Method", "m1")}

\* the queries: none, one word, or a name followed by a programming term or
\* by a context indicator
Queries ==
    {<< >>} \cup {<<w>> : w \in Vocabulary}
    \cup {<<w, v>> : w \in {<<"P", "a", "y">>, <<"p", "a", "y">>, <<"D", "b">>},
                     v \in programming_terms \cup context_indicators}

\* max_results of the request (1 to 100) or the default; --context/--no-context;
\* expand_call_hierarchy and expand_inheritance of the request, which have
\* an effect with context expansion only and are explored with the default
\* max_results
Configs ==
    {c \in [max_total_results : {2, DefaultMaxTotalResults},
            enable_context_expansion : BOOLEAN,
            max_context_nodes : {DefaultMaxContextNodes},
            expand_call_hierarchy : BOOLEAN,
            expand_inheritance : BOOLEAN] :
        (c.expand_call_hierarchy \/ c.expand_inheritance)
            => (c.enable_context_expansion
                /\ c.max_total_results = DefaultMaxTotalResults)}

\* what VectorSearchEngine.search_by_text may return: results for different
\* nodes, by falling similarity_score, at or above the threshold 0.6
VectorScores == {Hundredths(60), Hundredths(90)}

VectorResults(ns) ==
    {vr \in SeqsUpTo({SearchResult(n, s) : n \in ns, s \in VectorScores},
                     MaxVectorHits) :
        /\ \A i \in DOMAIN vr, j \in DOMAIN vr :
              vr[i].node_id = vr[j].node_id => i = j
        /\ \A i \in DOMAIN vr, j \in DOMAIN vr :
              i < j => vr[i].similarity_score >= vr[j].similarity_score}

\* the nodes the vector engine finds: the class Pay and the method pay
VectorNodes == {n \in SearchNodes : n.id \in {"c1", "m1"}}

nonSearchVars ==
    <<nodes, rels, opCount, lastRels, lastMatched, repeated, lastDelete,
      workspace, file_changes, scan, run, responses, gather, tasks, semaphore,
      pipeline>>

\* The engines keep nothing between two requests: an answer depends on the
\* store and on the arguments only.  So one request is followed at a time,
\* from its arrival (search.op = "none") to the return of its answer.

\* HybridSearchEngine.search(query, config)
hybrid_search(query, config, vector_results) ==
    /\ search.op = "none"
    /\ ParseQuery(query).query_type = "entity" => vector_results = << >>
    /\ LET found == Search(nodes, rels, query, config, vector_results,
                           search.accepted)
       IN search' = [NoSearch EXCEPT
                        !.op = "search", !.accepted = search.accepted,
                        !.query = query, !.config = config,
                        !.intent = found.intent,
                        !.all_results = found.all_results,
                        !.unique_results = found.unique_results,
                        !.merged = found.merged,
                        !.results = found.results]
    /\ UNCHANGED nonSearchVars

\* GraphTraversalEngine.get_call_hierarchy(method_id, direction, max_depth)
get_call_hierarchy(method_id, direction, max_depth) ==
    /\ search.op = "none"
    /\ search' = [NoSearch EXCEPT
                    !.op = "get_call_hierarchy", !.accepted = search.accepted,
                    !.method_id = method_id, !.direction = direction,
                    !.max_depth = max_depth,
                    !.callers = IF direction \in {"incoming", "both"}
                                THEN GetCallers(nodes, rels, method_id, max_depth)
                                ELSE << >>,
                    !.callees = IF direction \in {"outgoing", "both"}
                                THEN GetCallees(nodes, rels, method_id, max_depth)
                                ELSE << >>]
    /\ UNCHANGED nonSearchVars

\* GraphTraversalEngine.expand_context(search_results, max_related_nodes)
expand_context(search_results, max_related_nodes) ==
    /\ search.op = "none"
    /\ search' = [NoSearch EXCEPT
                    !.op = "expand_context", !.accepted = search.accepted,
                    !.seeds = search_results,
                    !.max_related_nodes = max_related_nodes,
                    !.related_nodes =
                        ExpandContext(nodes, rels, search_results,
                                      max_related_nodes, search.accepted).related_nodes]
    /\ UNCHANGED nonSearchVars

\* the answer goes back to the caller (search_api.search_code returns the
\* response, the search command prints it); the next request may arrive
return_response ==
    /\ search.op # "none"
    /\ search' = [NoSearch EXCEPT !.accepted = search.accepted]
    /\ UNCHANGED nonSearchVars

\* The store either evaluates the RETURN clause of the traversal query or
\* rejects it, the same way in every call.
InitSearch ==
    /\ nodes = SearchNodes
    /\ \E E \in SUBSET SearchEdges : rels = [e \in E \cup DefinesEdges |-> 1]
    /\ opCount = 0
    /\ IngestIdle
    /\ DeleteIdle
    /\ DetectIdle
    /\ SummarizeIdle
    /\ BatchIdle
    /\ PipelineIdle
    /\ search \in {[NoSearch EXCEPT !.accepted = b] : b \in BOOLEAN}

NextSearch ==
    \/ \E query \in Queries, config \in Configs,
          vector_results \in VectorResults(VectorNodes) :
          hybrid_search(query, config, vector_results)
    \/ \E method_id \in {"m1", "m2", "g1", "c1"},
          direction \in {"incoming", "outgoing", "both"},
          max_depth \in 1..MaxDepth :
          get_call_hierarchy(method_id, direction, max_depth)
    \/ \E search_results \in SeqsUpTo({SearchResult(n, Hundredths(100)) :
                                          n \in SearchNodes}, MaxSeeds),
          max_related_nodes \in {0, 1, 2, DefaultMaxContextNodes} :
          expand_context(search_results, max_related_nodes)
    \/ return_response

SpecSearch == InitSearch /\ [][NextSearch]_vars

(***************************************************************************)
(* C24                                                                     *)
(***************************************************************************)
\* the place of a node in the list that _merge_and_score_results returned
MergedPlace(node_id) ==
    CHOOSE i \in DOMAIN search.merged : search.merged[i].search_result.node_id = node_id

\* C24: search returns at most max_total_results results, by non-increasing
\* hybrid_score; results of equal score keep the relative order they had
\* after merging; what is returned is the head of the sorted merged list
\* (every result left out scores no higher than every result returned).
C24_SortedStableCapped ==
    search.op = "search" =>
        LET results == search.results
            merged == search.merged
            returned == {results[i].search_result.node_id : i \in DOMAIN results}
        IN /\ Len(results) <= search.config.max_total_results
           /\ Len(results) = IF Len(merged) < search.config.max_total_results
                             THEN Len(merged) ELSE search.config.max_total_results
           /\ \A i \in DOMAIN results : \E k \in DOMAIN merged : results[i] = merged[k]
           /\ \A i \in DOMAIN results, j \in DOMAIN results :
                 i < j => /\ results[i].hybrid_score >= results[j].hybrid_score
                          /\ results[i].hybrid_score = results[j].hybrid_score
                                => MergedPlace(results[i].search_result.node_id)
                                     < MergedPlace(results[j].search_result.node_id)
           /\ \A k \in DOMAIN merged :
                 merged[k].search_result.node_id \notin returned
                    => \A i \in DOMAIN results :
                          /\ merged[k].hybrid_score <= results[i].hybrid_score
                          /\ merged[k].hybrid_score = results[i].hybrid_score
                                => MergedPlace(results[i].search_result.node_id) < k

\* a search that merged more results than it may return, returned two with
\* different scores, and had two merged results of equal score
C24_Witness ==
    /\ search.op = "search"
    /\ Len(search.merged) > search.config.max_total_results
    /\ \E i \in DOMAIN search.results, j \in DOMAIN search.results :
          search.results[i].hybrid_score > search.results[j].hybrid_score
    /\ \E i \in DOMAIN search.merged, j \in DOMAIN search.merged :
          i < j /\ search.merged[i].hybrid_score = search.merged[j].hybrid_score

(***************************************************************************)
(* C25                                                                     *)
(***************************************************************************)
\* the stored nodes whose name is the one-word query N
NamedByQuery == {n \in nodes : search.query = <<n.name>>}

\* C25: when the query is the name N of a stored node and no other node has
\* that name, whatever the form of N, the search returns that node in
\* position 1 with a match_type that contains entity.
C25_ExactNameRecall ==
    (search.op = "search" /\ Cardinality(NamedByQuery) = 1) =>
        /\ search.results # << >>
        /\ \E n \in NamedByQuery : search.results[1].search_result.node_id = n.id
        /\ "entity" \in Range(search.results[1].match_type)

(***************************************************************************)
(* C26                                                                     *)
(***************************************************************************)
\* the first matching row of the decision table, confidence in tenths
DecisionTable(entity, programming, semantic) ==
    IF entity /\ semantic THEN <<"hybrid", 8>>
    ELSE IF entity THEN <<"entity", 9>>
    ELSE IF programming /\ semantic THEN <<"contextual", 7>>
    ELSE IF semantic THEN <<"semantic", 6>>
    ELSE <<"semantic", 4>>

\* C26: for each combination of (entity names found, programming terms
\* found, semantic terms found), _determine_query_type returns the pair of
\* the first matching row of the table; stated on the intent of a parsed
\* query.
C26_DecisionTable ==
    search.op = "search" =>
        <<search.intent.query_type, search.intent.confidence>>
            = DecisionTable(search.intent.entity_names # << >>,
                            search.intent.programming_terms # << >>,
                            search.intent.semantic_terms # << >>)

(***************************************************************************)
(* C27                                                                     *)
(***************************************************************************)
\* the returned methods that have an incoming or an outgoing CALLS edge
ReturnedCallingMethods ==
    {i \in DOMAIN search.results :
        /\ search.results[i].search_result.node_type = "Method"
        /\ \E e \in DOMAIN rels :
              /\ e.type = "CALLS"
              /\ <<"Method", search.results[i].search_result.node_id>> \in {e.src, e.tgt}}

\* C27: a search run with context expansion enabled that returns results
\* gives each of its first ten results a context, whatever the query type,
\* and that context has at least one related node when a returned method
\* has an incoming or an outgoing CALLS edge.
C27_ContextOnTopResults ==
    (/\ search.op = "search"
     /\ search.config.enable_context_expansion
     /\ search.results # << >>) =>
        \A i \in DOMAIN search.results :
            i <= TopResults =>
                /\ search.results[i].context.present
                /\ ReturnedCallingMethods # {}
                      => search.results[i].context.related_nodes # << >>

(***************************************************************************)
(* C28                                                                     *)
(***************************************************************************)
\* the node ids of a list of the call hierarchy
IdsOf(rows) == {rows[i].node_id : i \in DOMAIN rows}

\* C28: get_call_hierarchy with direction both returns callers and callees
\* with no node in common, each of at most 20 entries, neither holding the
\* queried node, in every CALLS graph (cycles and mutual recursion too).
C28_DisjointCapped ==
    (search.op = "get_call_hierarchy" /\ search.direction = "both") =>
        /\ IdsOf(search.callers) \cap IdsOf(search.callees) = {}
        /\ Len(search.callers) <= CallHierarchyLimit
        /\ Len(search.callees) <= CallHierarchyLimit
        /\ search.method_id \notin IdsOf(search.callers) \cup IdsOf(search.callees)

(***************************************************************************)
(* C29                                                                     *)
(***************************************************************************)
\* the nodes that a traversal rule relates to a seed: those at the other end
\* of an edge of the rule's type in the rule's direction, of the rule's
\* target label when it names one
RuleTargets(seed, rule) ==
    {n \in nodes :
        /\ n.id # seed.node_id
        /\ rule.to_node_type # Null => n.label = rule.to_node_type
        /\ \E e \in DOMAIN rels :
              /\ e.type = rule.relationship_type
              /\ \/ /\ rule.direction \in {"outgoing", "both"}
                    /\ e.src[2] = seed.node_id /\ e.tgt = Key(n)
                 \/ /\ rule.direction \in {"incoming", "both"}
                    /\ e.tgt[2] = seed.node_id /\ e.src = Key(n)}

\* C29: expand_context returns at most max_related_nodes related nodes and
\* no id twice; and when it collected fewer than max_related_nodes, every
\* traversal rule of every seed's label was applied to that seed: each node
\* the rule relates to the seed is among the related nodes (or is a seed).
C29_EveryRuleEverySeed ==
    search.op = "expand_context" =>
        LET related == search.related_nodes
            seeds == search.seeds
            ids == {related[i].node_id : i \in DOMAIN related}
                   \cup {seeds[i].node_id : i \in DOMAIN seeds}
        IN /\ Len(related) <= search.max_related_nodes
           /\ \A i \in DOMAIN related, j \in DOMAIN related :
                 related[i].node_id = related[j].node_id => i = j
           /\ Len(related) < search.max_related_nodes =>
                 \A i \in DOMAIN seeds :
                     seeds[i].node_type \in DOMAIN traversal_rules =>
                         \A k \in DOMAIN traversal_rules[seeds[i].node_type] :
                             \A n \in RuleTargets(seeds[i],
                                                  traversal_rules[seeds[i].node_type][k]) :
                                 n.id \in ids

\* the bounds on the returned list alone
C29_CappedNoDuplicates ==
    search.op = "expand_context" =>
        /\ Len(search.related_nodes) <= search.max_related_nodes
        /\ \A i \in DOMAIN search.related_nodes, j \in DOMAIN search.related_nodes :
              search.related_nodes[i].node_id = search.related_nodes[j].node_id => i = j

(***************************************************************************)
(* C30                                                                     *)
(***************************************************************************)
\* a run executes the embedding loop of run_full_enrichment
EmbeddingsRan ==
    \E w \in DOMAIN run : run[w].pc = "process_embeddings" /\ run'[w].pc = "done"

\* the nodes with raw_code whose generated_summary is still null and that
\* have no embedding yet, of the labels the embedding query names
CodeWithoutSummary(ns) ==
    {n \in ns : /\ n.raw_code # Null
                /\ n.generated_summary = Null
                /\ n.embedding = Null
                /\ n.label \in EmbeddingLabels}

\* C30: a node that has raw_code but whose generated_summary is still null
\* is selected for embedding generation and receives an embedding (computed
\* from its raw_code): after the embedding loop it has an embedding while
\* its generated_summary is null.
C30_EmbeddingFromRawCode ==
    [][EmbeddingsRan =>
        \A n \in CodeWithoutSummary(nodes) :
            \E n2 \in nodes' : /\ Key(n2) = Key(n)
                               /\ n2.embedding # Null
                               /\ n2.generated_summary = Null]_vars

\* no node has an embedding while its generated_summary is null
EmbeddingImpliesSummary ==
    \A n \in nodes : n.embedding # Null => n.generated_summary # Null

(***************************************************************************)
(* C31                                                                     *)
(***************************************************************************)
\* the (path, status) classifications of a change set
Classifications(changes) == {<<fc.path, fc.status>> : fc \in changes}

\* detect_file_changes runs again, in the directory of the run before it
DetectRanAgain ==
    /\ scan.kind = "done"
    /\ scan'.kind = "done"
    /\ opCount' = opCount + 1
    /\ scan'.directory = scan.directory

Maximum(S) == CHOOSE x \in S : \A y \in S : y <= x

Minimum(S) == CHOOSE x \in S : \A y \in S : x <= y

\* the results that reached the merge for the node of merged result k
ArrivalsOf(k) ==
    {i \in DOMAIN search.all_results :
        search.all_results[i].search_result.node_id
            = search.merged[k].search_result.node_id}

\* the formula of the score for merged result k, in millionths: base is the
\* highest score among the arrivals of the node; exact match is a name equal
\* to an entity name of the query or holding one of its keywords
ScoreFormula(k, multi) ==
    LET r == search.merged[k]
        intent == search.intent
        name == StrLower(r.search_result.name)
        base == Maximum({search.all_results[i].hybrid_score : i \in ArrivalsOf(k)})
        exact == \/ \E i \in DOMAIN intent.entity_names :
                       StrLower(intent.entity_names[i]) = name
                 \/ \E i \in DOMAIN intent.keywords :
                       Contains(name, intent.keywords[i])
        hinted == r.search_result.node_type \in Range(intent.node_types)
        related == IF r.context.present THEN Len(r.context.related_nodes) ELSE 0
        product ==
            Times(Times(Times(Times(base, IF exact THEN boost_exact_matches ELSE 10),
                              intent.confidence),
                        IF hinted THEN 12 ELSE 10),
                  IF multi THEN 11 ELSE 10)
    IN Minimum({Hundredths(200),
                product + Minimum({Hundredths(10), 2000 * related})})

\* multi-match read as: the node arrived more than once at the merge
ExpectedScore(k) == ScoreFormula(k, Cardinality(ArrivalsOf(k)) > 1)

RECURSIVE ArrivalList(_, _)
ArrivalList(id, from) ==
    IF from > Len(search.all_results) THEN << >>
    ELSE (IF search.all_results[from].search_result.node_id = id
          THEN <<from>> ELSE << >>) \o ArrivalList(id, from + 1)

\* the match types of the arrivals, joined in arrival order
RECURSIVE JoinedMatchTypes(_)
JoinedMatchTypes(arrivals) ==
    IF arrivals = << >> THEN << >>
    ELSE search.all_results[Head(arrivals)].match_type
             \o JoinedMatchTypes(Tail(arrivals))

\* C33: _merge_and_score_results returns exactly one result per distinct
\* node id among its inputs; before rescoring, its score is the highest of
\* the scores of the inputs with that id and its match_type is the match
\* types of those inputs joined with '+' in arrival order.
C33_MergeByNodeId ==
    search.op = "search" =>
        LET inputs == search.all_results
            unique == search.unique_results
        IN /\ {unique[k].search_result.node_id : k \in DOMAIN unique}
                = {inputs[i].search_result.node_id : i \in DOMAIN inputs}
           /\ \A k \in DOMAIN unique, l \in DOMAIN unique :
                 unique[k].search_result.node_id = unique[l].search_result.node_id
                    => k = l
           /\ Len(search.merged) = Len(unique)
           /\ \A k \in DOMAIN unique :
                 LET arrivals == ArrivalList(unique[k].search_result.node_id, 1)
                 IN /\ search.merged[k].search_result = unique[k].search_result
                    /\ search.merged[k].match_type = unique[k].match_type
                    /\ unique[k].hybrid_score
                         = Maximum({inputs[arrivals[i]].hybrid_score :
                                       i \in DOMAIN arrivals})
                    /\ unique[k].match_type = JoinedMatchTypes(arrivals)

\* a node arrived from the vector search and then, with a higher score, from
\* the entity lookup, next to a node that arrived once
C33_Witness ==
    /\ search.op = "search"
    /\ \E k \in DOMAIN search.unique_results :
          /\ search.unique_results[k].match_type = <<"vector", "entity">>
          /\ \E i \in DOMAIN search.all_results :
                /\ search.all_results[i].search_result.node_id
                     = search.unique_results[k].search_result.node_id
                /\ search.all_results[i].hybrid_score
                     < search.unique_results[k].hybrid_score
    /\ \E k \in DOMAIN search.unique_results :
          Len(search.unique_results[k].match_type) = 1

(***************************************************************************)
(* C34                                                                     *)
(***************************************************************************)
\* C34: parse_query puts into semantic_terms only tokens that were not
\* extracted as an entity name, a programming term or a node-type hint; a
\* query that is a single entity name has no semantic terms and is
\* classified entity with confidence 0.9.
C34_SemanticTermsAreTheRest ==
    search.op = "search" =>
        LET intent == search.intent
            extracted == {StrLower(intent.entity_names[i]) : i \in DOMAIN intent.entity_names}
                         \cup Range(intent.programming_terms)
                         \cup DOMAIN node_type_mapping
        IN /\ \A i \in DOMAIN intent.semantic_terms :
                 intent.semantic_terms[i] \notin extracted
           /\ (Len(search.query) = 1 /\ intent.entity_names # << >>) =>
                 /\ intent.semantic_terms = << >>
                 /\ intent.query_type = "entity"
                 /\ intent.confidence = 9

(***************************************************************************)
(* C35                                                                     *)
(***************************************************************************)
\* the search paths (vector search, entity lookup) that returned the node of
\* merged result k
PathsOf(k) ==
    UNION {Range(search.all_results[i].match_type) : i \in ArrivalsOf(k)}

\* C35: the multi-match factor 1.1 is applied to a result only if its node
\* was returned by more than one search path; a node returned by the entity
\* lookup alone is not multi-match, whatever the query.
C35_MultiMatchNeedsTwoPaths ==
    search.op = "search" =>
        \A k \in DOMAIN search.merged :
            /\ search.merged[k].hybrid_score
                 = ScoreFormula(k, Cardinality(PathsOf(k)) > 1)
            /\ Len(search.merged[k].match_type) > 1
                  => Cardinality(PathsOf(k)) > 1

(***************************************************************************)
(* C36                                                                     *)
(***************************************************************************)
\* the file exists in the workspace
ExistsInWorkspace(p) == p \in WsPaths /\ workspace[p] # Absent

\* C36: a file that still exists in the workspace is never classified
\* deleted by detect_file_changes (so cleanup_deleted_files, which deletes
\* the subgraph of every deleted record, never removes it), also when the
\* scanned directory is a sub-directory of the project root.
C36_ExistingFileNotDeleted ==
    scan.kind = "done" =>
        \A fc \in file_changes : fc.status = "deleted" => ~ExistsInWorkspace(fc.path)

(***************************************************************************)
(* C37                                                                     *)
(***************************************************************************)
\* the files of the run that were handed to a parser process
ParsedPaths == {fc.path : fc \in GetFilesToProcess(file_changes)}

\* C37: after the first index run, in which every new file is parsed by its
\* own parser process, the store holds one File node per parsed file path:
\* nodes of different files never receive the same id and are never merged
\* into one node by the upsert.
C37_OneFileNodePerFile ==
    (pipeline.pc = "returned" /\ pipeline.runs = 1) =>
        /\ {n.path : n \in {x \in nodes : x.label = "File"}} = ParsedPaths
        /\ Cardinality({n \in nodes : n.label = "File"}) = Cardinality(ParsedPaths)

(***************************************************************************)
(* C38                                                                     *)
(***************************************************************************)
\* what the enrichment has written on a node: nothing, a summary with its
\* status, or a summary, its status and an embedding
EnrichmentLevels ==
    {[generated_summary |-> Null, summary_status |-> Null, embedding |-> Null],
     [generated_summary |-> "text", summary_status |-> "COMPLETED", embedding |-> Null],
     [generated_summary |-> "text", summary_status |-> Null, embedding |-> "vector"],
     [generated_summary |-> "text", summary_status |-> "COMPLETED", embedding |-> "vector"]}

Enriched(n, e) ==
    [n EXCEPT !.generated_summary = e.generated_summary,
              !.summary_status = e.summary_status,
              !.embedding = e.embedding]

\* the stores an earlier ingest of a fragment of nodes named "a" and an
\* enrichment run leave
EnrichedStores ==
    LET firstFragments ==
            {ns \in SeqsUpTo({p \in ParsedNodes : p.name = "a"}, MaxFragNodes) :
                ns # << >>}
        ingested == {IngestNodesBatch({}, ns, {}) : ns \in firstFragments}
    IN UNION {{ {Enriched(n, f[n]) : n \in st} : f \in [st -> EnrichmentLevels]} :
                 st \in ingested}

\* the store has been ingested once (that call is counted) and enriched; the
\* parser's output is ingested again
InitReingest ==
    /\ nodes \in EnrichedStores
    /\ rels = << >>
    /\ opCount = 1
    /\ IngestIdle
    /\ DeleteIdle
    /\ DetectIdle
    /\ SummarizeIdle
    /\ BatchIdle
    /\ PipelineIdle
    /\ SearchIdle

NextReingest == ingest_chunker_output

SpecReingest == InitReingest /\ [][NextReingest]_vars

\* C38: an ingest leaves generated_summary, embedding and summary_status of
\* every node that was in the store as they were, whether or not the node is
\* among the ingested rows; the attributes of the row (here the name) are
\* overwritten.
C38_IngestKeepsEnrichment ==
    [][\A n \in nodes :
          \E m \in nodes' :
             /\ Key(m) = Key(n)
             /\ m.generated_summary = n.generated_summary
             /\ m.embedding = n.embedding
             /\ m.summary_status = n.summary_status]_vars

\* a node with summary, status and embedding was ingested again: its name
\* is the one of the new row (the first ingest named every node "a")
C38_Witness ==
    /\ opCount = 2
    /\ \E n \in nodes :
          /\ n.name = "b"
          /\ n.generated_summary = "text"
          /\ n.summary_status = "COMPLETED"
          /\ n.embedding = "vector"

(***************************************************************************)
(* C39: the embedding loop of run_full_enrichment, batch by batch          *)
(***************************************************************************)
MaxEmbeddingBatch == 2   \* embedding_batch_size, scaled to the explored stores

\* the EmbeddingResult of a text: a vector, or the empty list that
\* generate_embeddings_batch returns for the texts of a failed model call
EmbedderOutcomes == {"vector", "empty"}

\* LLMEmbeddingIntegration.update_node_embedding:
\* MATCH (n {id: $node_id}) SET n.embedding = $embedding
UpdateNodeEmbedding(ns, ids) ==
    {IF n.id \in ids THEN [n EXCEPT !.embedding = "vector"] ELSE n : n \in ns}

\* one turn of the embedding loop: process_embeddings_batch selects up to
\* batch_size nodes (no ORDER BY), asks the embedder, stores the vectors it
\* got and returns the number of stored vectors; run_full_enrichment breaks
\* on 0 and returns.  The run keeps the batch of its last turn in nodes.
process_embeddings_batch(w, Embedder) ==
    /\ run[w].pc = "process_embeddings"
    /\ \E order \in Orderings(NodesNeedingEmbeddings(nodes)) :
          LET batch == [i \in 1..Min(Len(order), MaxEmbeddingBatch) |->
                           SummarizationNode(order[i])] IN
          \E embedding_results \in [DOMAIN batch -> Embedder] :
             LET stored == {batch[i].id : i \in {k \in DOMAIN batch :
                                                   embedding_results[k] = "vector"}}
                 successful_updates == Cardinality(stored) IN
             /\ nodes' = UpdateNodeEmbedding(nodes, stored)
             /\ IF successful_updates = 0
                THEN Step(w, [Locals(run[w]) EXCEPT !.pc = "done", !.nodes = batch])
                ELSE Step(w, Locals(run[w]))
    /\ UNCHANGED <<responses, otherVars>>

\* one run; the LLM returns a text, every store query succeeds, and the
\* embedding model can fail on a text
NextEmbeddingFaults ==
    \/ run_hierarchical_summarization("r1")
    \/ get_nodes_by_level("r1", FALSE)
    \/ check_dependencies_ready("r1", FALSE)
    \/ mark_node_processing("r1", FALSE)
    \/ enrich_node_with_context("r1", FALSE)
    \/ generate_summaries_batch("r1", {"text"})
    \/ update_node_summary("r1", FALSE)
    \/ mark_node_completed("r1", FALSE)
    \/ get_nodes_needing_summaries("r1", FALSE)
    \/ process_summaries_batch("r1", {"text"})
    \/ process_summaries_update("r1", FALSE)
    \/ process_embeddings_batch("r1", EmbedderOutcomes)

SpecEmbeddingFaults == InitSummarize /\ [][NextEmbeddingFaults]_vars

\* the nodes of the last batch of the run
LastBatchIds(w) == {run[w].nodes[i].id : i \in DOMAIN run[w].nodes}

\* C39: when run_full_enrichment has returned, every node of an indexed
\* label with a generated_summary has an embedding unless the embedder was
\* asked for it and gave no vector: a batch in which every embedding failed
\* has not kept the loop from the eligible nodes outside that batch.
C39_EveryEligibleNodeProcessed ==
    \A w \in DOMAIN run :
        run[w].pc = "done" =>
            \A n \in NodesNeedingEmbeddings(nodes) : n.id \in LastBatchIds(w)

(***************************************************************************)
(* C40                                                                     *)
(***************************************************************************)
\* the counts _add_hierarchical_context adds for the node of result r alone
OwnCallHierarchy(r) ==
    IF search.config.expand_call_hierarchy
       /\ r.search_result.node_type \in {"Method", "Function"}
    THEN CallHierarchySummary(nodes, rels, r.search_result.node_id)
    ELSE NoCallHierarchy

OwnInheritance(r) ==
    IF search.config.expand_inheritance
       /\ r.search_result.node_type \in {"Class", "Interface"}
    THEN InheritanceSummary(nodes, rels, r.search_result.node_id)
    ELSE NoInheritance

\* C40: with expand_call_hierarchy or expand_inheritance enabled, the
\* call_hierarchy and inheritance counts in the context of each of the top
\* ten results are those of the result's own node, not those of another
\* result that shares the context.
C40_CountsOfOwnNode ==
    (search.op = "search"
     /\ (search.config.expand_call_hierarchy \/ search.config.expand_inheritance)) =>
        \A i \in DOMAIN search.all_results :
            LET r == search.all_results[i] IN
            r.context.present =>
                /\ r.context.call_hierarchy = OwnCallHierarchy(r)
                /\ r.context.inheritance = OwnInheritance(r)
=============================================================================
